---- MODULE Spec2Model ----
(***************************************************************************)
(* Order capture and review aggregation of the goshala storefront server.  *)
(*                                                                         *)
(* A JavaScript string that the code concatenates, trims, searches or      *)
(* compares with a secret is a sequence of one-character strings; a string *)
(* drawn from an enumeration is a TLA+ string.  A property that a JSON     *)
(* body, a header set or a document does not carry is a field the record   *)
(* does not have; reading it gives `undefined`.                            *)
(***************************************************************************)
EXTENDS Integers, Sequences, FiniteSets, Bags, TLC

VARIABLES
    RAZORPAY_KEY_SECRET,  \* process.env.RAZORPAY_KEY_SECRET
    ADMIN_SECRET,         \* the server's ADMIN_SECRET constant
    orders,               \* the Order collection, in insertion order
    pendingOrderSaves,    \* capture requests awaiting newOrder.save()
    products,             \* the Product collection
    comments,             \* the Comment collection, in insertion order
    reviews,              \* review submissions between two awaits
    nextObjectId,         \* source of fresh Product _id values
    listings,             \* product listing requests between two awaits
    configs,              \* the Config collection
    gatewayOrders,        \* the orders the payment gateway has created
    requestCounts,        \* the rate limiters' Map of admission times per key
    now,                  \* Date.now()
    admitted,             \* the requests the rate limiters passed to next()
    startup,              \* the standalone server's startServer() run
    cachedProducts,       \* the client data module's cache
    lastFetchTime,        \* when the client filled its cache
    inFlightFetch,        \* the client's in-flight promise, or null
    promises,             \* the promises the client's fetches created
    callers,              \* the client's loadProducts calls
    response              \* the response sent last, with the request it answers

vars == <<RAZORPAY_KEY_SECRET, ADMIN_SECRET, orders, pendingOrderSaves,
          products, comments, reviews, nextObjectId, listings, configs,
          gatewayOrders, requestCounts, now, admitted, startup, cachedProducts,
          lastFetchTime, inFlightFetch, promises, callers, response>>

orderVars == <<orders, pendingOrderSaves>>
reviewVars == <<products, comments, reviews, nextObjectId>>
envVars == <<RAZORPAY_KEY_SECRET, ADMIN_SECRET>>
limiterVars == <<requestCounts, now, admitted>>
clientVars == <<cachedProducts, lastFetchTime, inFlightFetch, promises, callers>>

\* what the routes on the Order, Product and Comment collections leave alone
peripheralVars == <<configs, gatewayOrders, limiterVars, startup, clientVars>>

\* what the routes on the three collections read and write
storeVars == <<orders, pendingOrderSaves, products, comments, reviews, nextObjectId,
               listings>>

-----------------------------------------------------------------------------
(* Bounds of the model *)

MaxPendingSaves == 2
MaxReviewsInFlight == 2
MaxComments == 3
MaxProductDocs == 2
MaxOverlappingComments == 2
MaxListingsInFlight == 1
MaxCatalog == 51
GeneralMaxRequests == 3
StrictMaxRequests == 2
UploadMaxRequests == 1
ShortWindow == 2
UploadWindow == 4
MaxNow == 2
MaxGatewayOrders == 2
MaxExported == 2
MaxConnectAttempts == 4
CacheDuration == 1
MaxCalls == 3

-----------------------------------------------------------------------------
(* JavaScript values *)

undefined == <<"undefined">>

\* null where a promise may stand; promises are numbered from 1
null == 0

Get(obj, f) == IF f \in DOMAIN obj THEN obj[f] ELSE undefined

\* !v for a value that is a string or undefined
Falsy(v) == v = undefined \/ v = <<>>

RECURSIVE TrimStart(_)
TrimStart(s) == IF s # <<>> /\ Head(s) = " " THEN TrimStart(Tail(s)) ELSE s

RECURSIVE TrimEnd(_)
TrimEnd(s) ==
    IF s # <<>> /\ s[Len(s)] = " " THEN TrimEnd(SubSeq(s, 1, Len(s) - 1)) ELSE s

Trim(s) == TrimEnd(TrimStart(s))

LowerOf(c) ==
    CASE c = "P" -> "p"
      [] c = "S" -> "s"
      [] c = "R" -> "r"
      [] c = "A" -> "a"
      [] OTHER -> c

ToLowerCase(s) == [i \in 1..Len(s) |-> LowerOf(s[i])]

\* String.prototype.includes
Includes(s, t) ==
    \E i \in 0..(Len(s) - Len(t)) : SubSeq(s, i + 1, i + Len(t)) = t

-----------------------------------------------------------------------------
(* crypto.createHmac('sha256', key).update(msg).digest('hex'), at reduced   *)
(* width: a keyed hash of the message bytes rendered as two digits.        *)

Alphabet == <<"|", "o", "p", "1", "2", "k", "x", "0", "a", "f", "3">>

CharCode(c) == CHOOSE i \in 1..Len(Alphabet) : Alphabet[i] = c

HexDigits == <<"0", "f">>

RECURSIVE Compress(_, _)
Compress(h, bytes) ==
    IF bytes = <<>> THEN h
    ELSE Compress((h * 7 + CharCode(Head(bytes))) %
                      (Len(HexDigits) * Len(HexDigits)), Tail(bytes))

HmacSha256Hex(key, msg) ==
    LET inner == Compress(1, key \o msg)
        outer == Compress(inner, key)
    IN  <<HexDigits[(outer \div Len(HexDigits)) + 1],
          HexDigits[(outer % Len(HexDigits)) + 1]>>

-----------------------------------------------------------------------------
(* Order schema *)

\* an enum that also lists Lost
ShippingStatusEnumWithLost == {"Pending", "Shipped", "Delivered", "Cancelled", "Lost"}

ShippingStatusEnum == {"Pending", "Shipped", "Delivered", "Cancelled"}

RequiredUserFields ==
    {"firstname", "lastname", "email", "phone", "address1", "city", "state", "zip"}

\* /.+@.+\..+/
EmailMatch(s) ==
    \E i, j \in 1..Len(s) :
        /\ i >= 2 /\ s[i] = "@"
        /\ j >= i + 2 /\ s[j] = "."
        /\ j <= Len(s) - 1

\* an order built without paymentStatus, left at the schema default
NewOrderDefaultPaymentStatus(req) ==
    LET d == req.orderDetails
    IN  [orderId |-> req.razorpay_order_id,
         user |-> [g \in DOMAIN d.user |-> Trim(d.user[g])],
         items |-> d.items,
         total |-> d.total,
         paymentStatus |-> "pending",
         razorpay |-> [orderId |-> req.razorpay_order_id,
                       paymentId |-> req.razorpay_payment_id,
                       signature |-> req.razorpay_signature],
         shippingStatus |-> "Pending"]

\* new Order({ orderId, user, items, total, paymentStatus, razorpay }):
\* the schema's setters (trim) and defaults are applied on construction
NewOrder(req) ==
    LET d == req.orderDetails
        F == {"orderId", "items", "paymentStatus", "razorpay", "shippingStatus"}
                 \cup ({"user", "total"} \cap DOMAIN d)
    IN  [f \in F |->
            CASE f = "orderId" -> req.razorpay_order_id
              [] f = "user" -> [g \in DOMAIN d.user |-> Trim(d.user[g])]
              [] f = "items" -> IF "items" \in DOMAIN d THEN d.items ELSE <<>>
              [] f = "total" -> d.total
              [] f = "paymentStatus" -> "confirmed"
              [] f = "razorpay" -> [orderId |-> req.razorpay_order_id,
                                    paymentId |-> req.razorpay_payment_id,
                                    signature |-> req.razorpay_signature]
              [] f = "shippingStatus" -> "Pending"]

\* an item schema without the minimum on quantity
ItemValidAnyQuantity(item) ==
    /\ "id" \in DOMAIN item
    /\ "name" \in DOMAIN item /\ item.name # <<>>
    /\ "quantity" \in DOMAIN item
    /\ "price" \in DOMAIN item /\ item.price >= 0

ItemValid(item) ==
    /\ "id" \in DOMAIN item
    /\ "name" \in DOMAIN item /\ item.name # <<>>
    /\ "quantity" \in DOMAIN item /\ item.quantity >= 1
    /\ "price" \in DOMAIN item /\ item.price >= 0

\* the validation newOrder.save() runs before it inserts
OrderSchemaValid(doc) ==
    /\ doc.orderId # <<>>
    /\ "user" \in DOMAIN doc
    /\ \A f \in RequiredUserFields : f \in DOMAIN doc.user /\ doc.user[f] # <<>>
    /\ EmailMatch(doc.user.email)
    /\ "total" \in DOMAIN doc /\ doc.total >= 0
    /\ Len(doc.items) > 0
    /\ \A i \in 1..Len(doc.items) : ItemValid(doc.items[i])
    /\ doc.shippingStatus \in ShippingStatusEnum

\* the unique index on orderId
OrderIdTaken(store, id) == \E i \in 1..Len(store) : store[i].orderId = id

\* a collection whose orderId index is not unique
OrderSaveResultNoUniqueIndex(store, doc) ==
    IF ~OrderSchemaValid(doc) THEN "ValidationError" ELSE "ok"

\* newOrder.save(): "ok", or the error it throws
OrderSaveResult(store, doc) ==
    IF ~OrderSchemaValid(doc) THEN "ValidationError"
    ELSE IF OrderIdTaken(store, doc.orderId) THEN "E11000"
    ELSE "ok"

-----------------------------------------------------------------------------
(* Middleware *)

adminAuth(req) ==
    LET header == Get(req, "x_admin_secret")
        secret == IF Falsy(header) THEN Get(req, "secret") ELSE header
    IN  secret = ADMIN_SECRET

-----------------------------------------------------------------------------
(* POST /api/razorpay/capture *)

NoResponse == [endpoint |-> "none"]

\* testing the fields against undefined instead of for truthiness
CaptureMissingDataUndefinedOnly(req) ==
    \E f \in {"razorpay_order_id", "razorpay_payment_id", "razorpay_signature",
               "orderDetails"} : f \notin DOMAIN req

CaptureMissingData(req) ==
    \/ Falsy(Get(req, "razorpay_order_id"))
    \/ Falsy(Get(req, "razorpay_payment_id"))
    \/ Falsy(Get(req, "razorpay_signature"))
    \/ "orderDetails" \notin DOMAIN req

CaptureDigest(req) ==
    HmacSha256Hex(RAZORPAY_KEY_SECRET,
                  req.razorpay_order_id \o <<"|">> \o req.razorpay_payment_id)

\* comparing only the leading digit
SignatureMatchesPrefix(digest, razorpay_signature) ==
    Head(digest) = Head(razorpay_signature)

\* comparing only the lengths
SignatureMatchesLength(digest, razorpay_signature) ==
    Len(digest) = Len(razorpay_signature)

SignatureMatches(digest, razorpay_signature) == digest = razorpay_signature

CaptureReply(req, status, body, hmacCalls) ==
    [endpoint |-> "capture", req |-> req, status |-> status, body |-> body,
     hmacCalls |-> hmacCalls]

\* the handler up to its only await
Capture(req) ==
    IF CaptureMissingData(req)
    THEN /\ response' = CaptureReply(req, 400,
                [success |-> FALSE, error |-> "Missing required data."], 0)
         /\ UNCHANGED <<orderVars, reviewVars, envVars, peripheralVars, listings>>
    ELSE IF SignatureMatches(CaptureDigest(req), req.razorpay_signature)
    THEN /\ BagCardinality(pendingOrderSaves) < MaxPendingSaves
         /\ pendingOrderSaves' = pendingOrderSaves (+)
                SetToBag({[req |-> req, newOrder |-> NewOrder(req)]})
         /\ UNCHANGED <<orders, response, reviewVars, envVars, peripheralVars, listings>>
    ELSE /\ response' = CaptureReply(req, 400,
                [success |-> FALSE, error |-> "Invalid signature"], 1)
         /\ UNCHANGED <<orderVars, reviewVars, envVars, peripheralVars, listings>>

\* newOrder.save() settles and the handler answers
CaptureSave(p) ==
    /\ BagIn(p, pendingOrderSaves)
    /\ pendingOrderSaves' = pendingOrderSaves (-) SetToBag({p})
    /\ IF OrderSaveResult(orders, p.newOrder) = "ok"
       THEN /\ orders' = Append(orders, p.newOrder)
            /\ response' = CaptureReply(p.req, 200,
                   [success |-> TRUE,
                    message |-> "Payment successful and order created",
                    orderId |-> p.newOrder.orderId], 1)
       ELSE /\ orders' = orders
            /\ response' = CaptureReply(p.req, 500,
                   [success |-> FALSE, error |-> "Internal Server Error"], 1)
    /\ UNCHANGED <<reviewVars, envVars, peripheralVars, listings>>

-----------------------------------------------------------------------------
(* PUT /api/admin/orders/:orderId/status *)

StatusPresent(req) == "status" \in DOMAIN req /\ req.status # ""

UpdatePayload(req) ==
    [f \in {"tracking"} \cup (IF StatusPresent(req) THEN {"shippingStatus"} ELSE {}) |->
        IF f = "shippingStatus" THEN req.status
        ELSE [number |-> IF Falsy(Get(req, "trackingNumber")) THEN <<>>
                         ELSE req.trackingNumber,
              carrier |-> IF Falsy(Get(req, "trackingCarrier")) THEN <<>>
                          ELSE req.trackingCarrier]]

\* an update that replaces the document by the payload, keeping its orderId
ApplyUpdateOverwriting(doc, payload) ==
    [f \in {"orderId"} \cup DOMAIN payload |->
        IF f \in DOMAIN payload THEN payload[f] ELSE doc[f]]

\* $set of the payload on one document; the tracking schema trims
ApplyUpdate(doc, payload) ==
    [f \in DOMAIN doc \cup DOMAIN payload |->
        IF f = "tracking"
        THEN [number |-> Trim(payload.tracking.number),
              carrier |-> Trim(payload.tracking.carrier)]
        ELSE IF f \in DOMAIN payload THEN payload[f] ELSE doc[f]]

AdminReply(req, status, body) ==
    [endpoint |-> "order-status", req |-> req, status |-> status, body |-> body]

AdminUpdateOrderStatus(req) ==
    /\ UNCHANGED <<pendingOrderSaves, reviewVars, envVars, peripheralVars, listings>>
    /\ IF ~adminAuth(req)
       THEN /\ response' = AdminReply(req, 401, [error |-> "Unauthorized"])
            /\ orders' = orders
       ELSE IF StatusPresent(req) /\ req.status \notin ShippingStatusEnum
       THEN /\ response' = AdminReply(req, 400, [error |-> "Invalid status value."])
            /\ orders' = orders
       ELSE IF ~OrderIdTaken(orders, req.orderId)
       THEN /\ response' = AdminReply(req, 404, [error |-> "Order not found."])
            /\ orders' = orders
       ELSE LET i == CHOOSE k \in 1..Len(orders) : orders[k].orderId = req.orderId
                updatedOrder == ApplyUpdate(orders[i], UpdatePayload(req))
            IN  /\ orders' = [orders EXCEPT ![i] = updatedOrder]
                /\ response' = AdminReply(req, 200, updatedOrder)

-----------------------------------------------------------------------------
(* Product and Comment collections.  A Comment's rating is a whole number  *)
(* of stars.  A rating sent in a request and a Product's rating may have   *)
(* one decimal and are kept as tenths of a star: 45 is 4.5.                *)

\* NaN, which no legacyId equals
NaN == -1

Digits == <<"0", "1", "2", "3", "4", "5", "6", "7", "8", "9">>

IsDigit(c) == \E d \in 1..Len(Digits) : Digits[d] = c

DigitValue(c) == (CHOOSE d \in 1..Len(Digits) : Digits[d] = c) - 1

\* the value of the leading decimal digits of s, given the value n of the
\* digits before them
RECURSIVE LeadingDigits(_, _)
LeadingDigits(s, n) ==
    IF s = <<>> \/ ~IsDigit(Head(s)) THEN n
    ELSE LeadingDigits(Tail(s), 10 * n + DigitValue(Head(s)))

\* parseInt(req.params.id) of a path segment that carries no sign and no
\* blank: NaN unless the segment starts with a digit
ParseIntParam(id) ==
    IF id = <<>> \/ ~IsDigit(Head(id)) THEN NaN ELSE LeadingDigits(id, 0)

\* the CastError a query rejects with when the Number it filters legacyId
\* by is NaN
CastError(legacyId) == legacyId = NaN

\* Product.findOne({}): a query that lost its filter
ProductByEmptyFilter(store, legacyId) == store

\* Product.findOne({ legacyId })
ProductByLegacyId(store, legacyId) == {p \in store : p.legacyId = legacyId}

CommentsOf(store, productId) == SelectSeq(store, LAMBDA c : c.productId = productId)

RECURSIVE SumOfRatings(_)
SumOfRatings(cs) == IF cs = <<>> THEN 0 ELSE Head(cs).rating + SumOfRatings(Tail(cs))

\* Comment.aggregate([{ $match: { productId } },
\*     { $group: { _id: '$productId', avgRating: { $avg: '$rating' }, count: { $sum: 1 } } }]);
\* avgRating is the exact quotient sum / count
Aggregate(store, productId) ==
    LET cs == CommentsOf(store, productId)
    IN  IF cs = <<>> THEN <<>>
        ELSE <<[_id |-> productId, sum |-> SumOfRatings(cs), count |-> Len(cs)]>>

\* Math.floor(avgRating * 10) / 10, in tenths
FloorTimesTen(stat) == (10 * stat.sum) \div stat.count

\* Math.round(avgRating * 10) / 10, in tenths: Math.round(x) is floor(x + 0.5)
RoundTimesTen(stat) == (20 * stat.sum + stat.count) \div (2 * stat.count)

\* parseInt(rating) of a rating of at least 1, in stars; NaN for a string
\* that starts with no digit
ParseInt(rating) == IF rating = NaN THEN NaN ELSE rating \div 10

\* the name test of the verified-purchase scan
CustomerNameIncludes(order, reviewerName) ==
    LET customerName ==
            Trim(ToLowerCase(order.user.firstname \o <<" ">> \o order.user.lastname))
    IN  Includes(customerName, reviewerName)

\* Order.find({ 'items.id': legacyId })
OrdersWithProduct(store, legacyId) ==
    SelectSeq(store, LAMBDA o : \E i \in 1..Len(o.items) : o.items[i].id = legacyId)

\* a scan that looks at the first order only
IsVerifiedByFirstOrder(store, legacyId, user) ==
    LET ordersWithProduct == OrdersWithProduct(store, legacyId)
        reviewerName == Trim(ToLowerCase(user))
    IN  /\ Len(ordersWithProduct) > 0
        /\ CustomerNameIncludes(ordersWithProduct[1], reviewerName)

IsVerified(store, legacyId, user) ==
    LET ordersWithProduct == OrdersWithProduct(store, legacyId)
        reviewerName == Trim(ToLowerCase(user))
    IN  /\ Len(ordersWithProduct) > 0
        /\ \E i \in 1..Len(ordersWithProduct) :
               CustomerNameIncludes(ordersWithProduct[i], reviewerName)

\* new Comment({ productId, username, rating, comment, verifiedPurchase })
NewComment(product, req, isVerified) ==
    [productId |-> product.legacyId,
     username |-> Trim(req.user),
     rating |-> ParseInt(req.rating),
     comment |-> Trim(req.comment),
     verifiedPurchase |-> isVerified]

\* the validation newComment.save() runs before it inserts
CommentSchemaValid(doc) ==
    /\ doc.username # <<>>
    /\ doc.comment # <<>>
    /\ doc.rating # NaN
    /\ doc.rating >= 1 /\ doc.rating <= 5

-----------------------------------------------------------------------------
(* POST /api/products/:id/reviews *)

\* a rating the body carries as a string that is no numeral is kept as NaN,
\* the number that < and > convert it to; the string is not empty, so
\* !rating is false, and both comparisons with NaN are false
ReviewInvalid(req) ==
    \/ Falsy(Get(req, "user"))
    \/ "rating" \notin DOMAIN req \/ req.rating = 0
    \/ Falsy(Get(req, "comment"))
    \/ req.rating # NaN /\ (req.rating < 10 \/ req.rating > 50)

ReviewReply(req, status, body) ==
    [endpoint |-> "review", req |-> req, status |-> status, body |-> body]

Advance(r, next) == reviews' = (reviews (-) SetToBag({r})) (+) SetToBag({next})

Finish(r) == reviews' = reviews (-) SetToBag({r})

\* Product.findOne settles; the handler validates the body and asks for the
\* orders
ReviewFindProduct(req) ==
    LET found == ProductByLegacyId(products, ParseIntParam(req.id))
    IN  /\ UNCHANGED <<orderVars, products, comments, nextObjectId,
                       envVars, peripheralVars, listings>>
        /\ IF CastError(ParseIntParam(req.id))
           THEN /\ response' = ReviewReply(req, 500, [error |-> "Failed to add review."])
                /\ reviews' = reviews
           ELSE IF found = {}
           THEN /\ response' = ReviewReply(req, 404, [error |-> "Product not found."])
                /\ reviews' = reviews
           ELSE IF ReviewInvalid(req)
           THEN /\ response' = ReviewReply(req, 400,
                       [error |-> "Missing required review fields: user, rating, comment"])
                /\ reviews' = reviews
           ELSE /\ BagCardinality(reviews) < MaxReviewsInFlight
                /\ Len(comments) + BagCardinality(reviews) < MaxComments
                /\ \E product \in found :
                       reviews' = reviews (+)
                           SetToBag({[await |-> "Order.find", req |-> req,
                                      product |-> product]})
                /\ response' = response

\* Order.find settles; the handler builds the Comment and saves it
ReviewFindOrders(r) ==
    /\ r.await = "Order.find"
    /\ Advance(r, [await |-> "newComment.save", req |-> r.req, product |-> r.product,
                   newComment |-> NewComment(r.product, r.req,
                       IsVerified(orders, r.product.legacyId, r.req.user))])
    /\ UNCHANGED <<orderVars, products, comments, nextObjectId,
                   envVars, peripheralVars, listings, response>>

\* newComment.save() settles; the handler asks for the aggregate
ReviewSaveComment(r) ==
    /\ r.await = "newComment.save"
    /\ IF CommentSchemaValid(r.newComment)
       THEN /\ comments' = Append(comments, r.newComment)
            /\ Advance(r, [r EXCEPT !.await = "Comment.aggregate"])
            /\ response' = response
       ELSE /\ comments' = comments
            /\ Finish(r)
            /\ response' = ReviewReply(r.req, 500, [error |-> "Failed to add review."])
    /\ UNCHANGED <<orderVars, products, nextObjectId, envVars, peripheralVars, listings>>

Created(r, product) ==
    ReviewReply(r.req, 201,
        [newComment |-> r.newComment, newRating |-> product.rating,
         newReviewsCount |-> product.reviewsCount])

\* a save that writes the rating only
ModifiedPathsRatingOnly(old, new) == {f \in {"rating"} : old[f] # new[f]}

\* the paths of the loaded document that an assignment changes
ModifiedPaths(old, new) == {f \in {"rating", "reviewsCount"} : old[f] # new[f]}

\* Comment.aggregate settles; the handler sets the two fields on the loaded
\* product and saves it
ReviewAggregate(r) ==
    /\ r.await = "Comment.aggregate"
    /\ LET stats == Aggregate(comments, r.product.legacyId)
       IN  IF Len(stats) > 0
           THEN LET product == [r.product EXCEPT !.rating = RoundTimesTen(stats[1]),
                                                 !.reviewsCount = stats[1].count]
                IN  /\ Advance(r, [await |-> "product.save", req |-> r.req,
                                   product |-> product, newComment |-> r.newComment,
                                   modified |-> ModifiedPaths(r.product, product)])
                    /\ response' = response
           ELSE /\ Finish(r)
                /\ response' = Created(r, r.product)
    /\ UNCHANGED <<orderVars, products, comments, nextObjectId,
                   envVars, peripheralVars, listings>>

\* product.save() of a loaded document: a $set of its modified paths on the
\* document with its _id, which must still exist
ProductSave(store, product, modified) ==
    {IF p._id = product._id
     THEN [f \in DOMAIN p |-> IF f \in modified THEN product[f] ELSE p[f]]
     ELSE p : p \in store}

\* product.save() settles and the handler answers
ReviewSaveProduct(r) ==
    /\ r.await = "product.save"
    /\ Finish(r)
    /\ IF r.modified = {}
       THEN /\ products' = products
            /\ response' = Created(r, r.product)
       ELSE IF \E p \in products : p._id = r.product._id
       THEN /\ products' = ProductSave(products, r.product, r.modified)
            /\ response' = Created(r, r.product)
       ELSE /\ products' = products
            /\ response' = ReviewReply(r.req, 500, [error |-> "Failed to add review."])
    /\ UNCHANGED <<orderVars, comments, nextObjectId, envVars, peripheralVars, listings>>

\* the store rejects the call the handler awaits; the catch block answers
ReviewStoreFailure(r) ==
    /\ Finish(r)
    /\ response' = ReviewReply(r.req, 500, [error |-> "Failed to add review."])
    /\ UNCHANGED <<orderVars, products, comments, nextObjectId,
                   envVars, peripheralVars, listings>>

-----------------------------------------------------------------------------
(* POST, PUT and DELETE /api/products *)

ProductReply(endpoint, req, status, body) ==
    [endpoint |-> endpoint, req |-> req, status |-> status, body |-> body]

\* new Product({ ...productData, legacyId, dateAdded }) with the schema
\* defaults
NewProduct(body, objectId) ==
    [f \in {"_id", "rating", "reviewsCount"}
            \cup (DOMAIN body \cap {"legacyId", "name", "price"}) |->
        CASE f = "_id" -> objectId
          [] f = "rating" -> IF "rating" \in DOMAIN body THEN body.rating ELSE 0
          [] f = "reviewsCount" ->
                 IF "reviewsCount" \in DOMAIN body THEN body.reviewsCount ELSE 0
          [] f = "name" -> Trim(body.name)
          [] OTHER -> body[f]]

\* the validators of the paths a document or an update carries
ProductPathsValid(doc) ==
    /\ "name" \in DOMAIN doc => Len(doc.name) >= 3 /\ Len(doc.name) <= 150
    /\ "price" \in DOMAIN doc => doc.price >= 0

ProductSchemaValid(doc) ==
    /\ {"legacyId", "name", "price"} \subseteq DOMAIN doc
    /\ ProductPathsValid(doc)

ProductCreate(req) ==
    /\ UNCHANGED <<orderVars, comments, reviews, envVars, peripheralVars, listings>>
    /\ IF ~adminAuth(req)
       THEN /\ response' = ProductReply("product-create", req, 401,
                                        [error |-> "Unauthorized"])
            /\ UNCHANGED <<products, nextObjectId>>
       ELSE /\ nextObjectId <= MaxProductDocs
            /\ nextObjectId' = nextObjectId + 1
            /\ LET newProduct == NewProduct(req.body, nextObjectId)
               IN  IF /\ ProductSchemaValid(newProduct)
                      /\ ProductByLegacyId(products, newProduct.legacyId) = {}
                   THEN /\ products' = products \cup {newProduct}
                        /\ response' = ProductReply("product-create", req, 201,
                                                    newProduct)
                   ELSE /\ products' = products
                        /\ response' = ProductReply("product-create", req, 400,
                                           [error |-> "Failed to create product."])

\* findOneAndUpdate({ legacyId }, req.body, { new: true, runValidators: true })
ProductUpdate(req) ==
    /\ UNCHANGED <<orderVars, comments, reviews, nextObjectId,
                   envVars, peripheralVars, listings>>
    /\ IF ~adminAuth(req)
       THEN /\ response' = ProductReply("product-update", req, 401,
                                        [error |-> "Unauthorized"])
            /\ products' = products
       ELSE IF ~ProductPathsValid(req.body) \/ CastError(ParseIntParam(req.id))
       THEN /\ response' = ProductReply("product-update", req, 400,
                                        [error |-> "Failed to update product."])
            /\ products' = products
       ELSE IF ProductByLegacyId(products, ParseIntParam(req.id)) = {}
       THEN /\ response' = ProductReply("product-update", req, 404,
                                        [error |-> "Product not found."])
            /\ products' = products
       ELSE LET old == CHOOSE p \in products : p.legacyId = ParseIntParam(req.id)
                updatedProduct ==
                    [f \in DOMAIN old |->
                        IF f \in DOMAIN req.body THEN req.body[f] ELSE old[f]]
            IN  /\ products' = (products \ {old}) \cup {updatedProduct}
                /\ response' = ProductReply("product-update", req, 200, updatedProduct)

\* a delete that takes the product's Comments with it
ProductDeleteWithComments(req) ==
    /\ UNCHANGED <<orderVars, reviews, nextObjectId, envVars, peripheralVars, listings>>
    /\ IF ~adminAuth(req)
       THEN /\ response' = ProductReply("product-delete", req, 401,
                                        [error |-> "Unauthorized"])
            /\ UNCHANGED <<products, comments>>
       ELSE IF CastError(ParseIntParam(req.id))
       THEN /\ response' = ProductReply("product-delete", req, 500,
                                        [error |-> "Failed to delete product."])
            /\ UNCHANGED <<products, comments>>
       ELSE IF ProductByLegacyId(products, ParseIntParam(req.id)) = {}
       THEN /\ response' = ProductReply("product-delete", req, 404,
                                        [error |-> "Product not found."])
            /\ UNCHANGED <<products, comments>>
       ELSE /\ products' = products \ ProductByLegacyId(products, ParseIntParam(req.id))
            /\ comments' = SelectSeq(comments,
                               LAMBDA c : c.productId # ParseIntParam(req.id))
            /\ response' = ProductReply("product-delete", req, 200,
                               [message |-> "Product deleted successfully."])

ProductDelete(req) ==
    /\ UNCHANGED <<orderVars, comments, reviews, nextObjectId,
                   envVars, peripheralVars, listings>>
    /\ IF ~adminAuth(req)
       THEN /\ response' = ProductReply("product-delete", req, 401,
                                        [error |-> "Unauthorized"])
            /\ products' = products
       ELSE IF CastError(ParseIntParam(req.id))
       THEN /\ response' = ProductReply("product-delete", req, 500,
                                        [error |-> "Failed to delete product."])
            /\ products' = products
       ELSE IF ProductByLegacyId(products, ParseIntParam(req.id)) = {}
       THEN /\ response' = ProductReply("product-delete", req, 404,
                                        [error |-> "Product not found."])
            /\ products' = products
       ELSE /\ products' = products \ ProductByLegacyId(products, ParseIntParam(req.id))
            /\ response' = ProductReply("product-delete", req, 200,
                               [message |-> "Product deleted successfully."])

-----------------------------------------------------------------------------
(* GET /api/products.  The Date a product is added on grows with its _id,  *)
(* so the newest product is the one of the greatest _id.                   *)

Max(a, b) == IF a >= b THEN a ELSE b

Min(a, b) == IF a <= b THEN a ELSE b

\* a query value parseInt reads a number from: it starts with a digit, or
\* with "-" and a digit
Numeral(v) ==
    /\ v # <<>>
    /\ \/ IsDigit(Head(v))
       \/ Head(v) = "-" /\ Len(v) > 1 /\ IsDigit(v[2])

\* parseInt(v) of a numeral
ParseIntNumeral(v) ==
    IF Head(v) = "-" THEN 0 - LeadingDigits(Tail(v), 0) ELSE LeadingDigits(v, 0)

\* const { page = 1 } = req.query
QueryPage(req) == IF "page" \in DOMAIN req THEN req.page ELSE <<"1">>

\* const { limit = 10 } = req.query
QueryLimit(req) == IF "limit" \in DOMAIN req THEN req.limit ELSE <<"1", "0">>

\* Math.max(1, parseInt(page)); Math.max of NaN is NaN
PageNum(req) ==
    IF ~Numeral(QueryPage(req)) THEN NaN
    ELSE Max(1, ParseIntNumeral(QueryPage(req)))

\* Math.min(50, Math.max(1, parseInt(limit))); Math.min of NaN is NaN
LimitNum(req) ==
    IF ~Numeral(QueryLimit(req)) THEN NaN
    ELSE Min(50, Max(1, ParseIntNumeral(QueryLimit(req))))

\* an offset that skips the requested page too
SkipThroughPage(pageNum, limitNum) ==
    IF pageNum = NaN \/ limitNum = NaN THEN NaN ELSE pageNum * limitNum

\* (pageNum - 1) * limitNum
Skip(pageNum, limitNum) ==
    IF pageNum = NaN \/ limitNum = NaN THEN NaN ELSE (pageNum - 1) * limitNum

\* Math.ceil(totalProducts / limitNum)
TotalPages(totalProducts, limitNum) ==
    IF limitNum = NaN THEN NaN ELSE (totalProducts + limitNum - 1) \div limitNum

\* the query built from category and search: the regular expression of a
\* search made of digits matches the names that contain it
MatchesQuery(p, req) ==
    /\ ("category" \in DOMAIN req /\ req.category # "" /\ req.category # "All")
       => "category" \in DOMAIN p /\ req.category \in p.category
    /\ ("search" \in DOMAIN req /\ req.search # <<>>)
       => \/ Includes(p.name, req.search)
          \/ Numeral(req.search) /\ p.legacyId = ParseIntNumeral(req.search)

\* what sortOptions orders by, negated for a descending sort
SortKey(p, req) ==
    LET sort == IF "sort" \in DOMAIN req THEN req.sort ELSE "relevance"
    IN  CASE sort = "newest" -> 0 - p._id
          [] sort = "price-asc" -> p.price
          [] sort = "price-desc" -> 0 - p.price
          [] OTHER -> p.legacyId

\* the documents of keyed, a set of <<key, document>>, in ascending order
\* of their keys
RECURSIVE Ascending(_)
Ascending(keyed) ==
    IF keyed = {} THEN <<>>
    ELSE LET least == CHOOSE x \in keyed : \A y \in keyed : x[1] <= y[1]
         IN  <<least[2]>> \o Ascending(keyed \ {least})

\* Product.find(query).sort(sortOptions) on a store whose products differ
\* in their sort key
SortedMatches(store, req) ==
    Ascending({<<SortKey(p, req), p>> : p \in {q \in store : MatchesQuery(q, req)}})

\* productObj.id = productObj.legacyId without legacyId, and
\* select('-__v -_id')
FormatProduct(p) ==
    [f \in (DOMAIN p \ {"_id", "legacyId"}) \cup {"id"} |->
        IF f = "id" THEN p.legacyId ELSE p[f]]

FormatProducts(found) == [i \in 1..Len(found) |-> FormatProduct(found[i])]

\* .skip(skip).limit(limitNum) of a query answered in sorted order; a NaN
\* the server reads as 0 skips nothing and limits nothing
SkipLimit(found, skip, limitNum) ==
    LET first == IF skip = NaN THEN 1 ELSE skip + 1
        last == IF limitNum = NaN THEN Len(found)
                ELSE Min(first - 1 + limitNum, Len(found))
    IN  SubSeq(found, first, last)

ListingReply(req, status, body) ==
    [endpoint |-> "products", req |-> req, status |-> status, body |-> body]

\* the handler up to await Product.countDocuments(query)
ProductsCounted(req) ==
    /\ BagCardinality(listings) < MaxListingsInFlight
    /\ listings' = listings (+) SetToBag({
           [req |-> req,
            pageNum |-> PageNum(req),
            limitNum |-> LimitNum(req),
            skip |-> Skip(PageNum(req), LimitNum(req)),
            totalProducts |-> Cardinality({p \in products : MatchesQuery(p, req)})]})
    /\ UNCHANGED <<orderVars, reviewVars, envVars, peripheralVars, response>>

\* await Product.find(query)...lean() settles and the handler answers; a
\* skip or limit of NaN is either rejected by the query or read as 0
ProductsFound(l) ==
    /\ BagIn(l, listings)
    /\ listings' = listings (-) SetToBag({l})
    /\ \E rejected \in {b \in BOOLEAN : b => (l.skip = NaN \/ l.limitNum = NaN)} :
           IF rejected
           THEN response' = ListingReply(l.req, 500,
                                [error |-> "Failed to fetch products"])
           ELSE response' = ListingReply(l.req, 200,
                    [products |-> FormatProducts(
                         SkipLimit(SortedMatches(products, l.req), l.skip, l.limitNum)),
                     totalPages |-> TotalPages(l.totalProducts, l.limitNum),
                     currentPage |-> l.pageNum,
                     totalProducts |-> l.totalProducts])
    /\ UNCHANGED <<orderVars, reviewVars, envVars, peripheralVars>>

-----------------------------------------------------------------------------
(* Config routes.  A Config value is a list of product ids, which are       *)
(* numbers.                                                                *)

CarouselRoute == [name |-> "carousel", key |-> "carouselProductIds"]

TopPicksRoute == [name |-> "top-picks", key |-> "topPicksProductIds"]

ConfigRoutes == {CarouselRoute, TopPicksRoute}

ConfigReply(route, req, status, body) ==
    [endpoint |-> route.name, req |-> req, status |-> status, body |-> body]

\* Config.findOne({ key }): the documents with the key, at most one
ConfigByKey(store, key) == {c \in store : c.key = key}

\* PUT /api/admin/config/carousel and /top-picks: findOneAndUpdate with
\* upsert; a body without productIds sets no value
AdminPutConfig(route, req) ==
    /\ UNCHANGED <<storeVars, envVars, gatewayOrders, limiterVars, startup, clientVars>>
    /\ IF ~adminAuth(req)
       THEN /\ response' = ConfigReply(route, req, 401, [error |-> "Unauthorized"])
            /\ configs' = configs
       ELSE /\ configs' = (configs \ ConfigByKey(configs, route.key))
                \cup {IF "productIds" \in DOMAIN req
                      THEN [key |-> route.key, value |-> req.productIds]
                      ELSE [key |-> route.key]}
            /\ response' = ConfigReply(route, req, 200, [success |-> TRUE])

\* the products in the order of their legacyId
CuratedInStoreOrder(value, found) ==
    SortedMatches({p \in found : \E i \in 1..Len(value) : value[i] = p.legacyId}, << >>)

\* config.value.map(id => products.find(p => p.legacyId === id))
\*     .filter(Boolean)
RECURSIVE Curated(_, _)
Curated(value, found) ==
    IF value = <<>> THEN <<>>
    ELSE (IF \E p \in found : p.legacyId = Head(value)
          THEN <<CHOOSE p \in found : p.legacyId = Head(value)>>
          ELSE <<>>) \o Curated(Tail(value), found)

\* GET /api/config/carousel-slides and /top-picks-products up to await
\* Product.find: no Config, no value or an empty value is answered []
CuratedRequested(route) ==
    LET config == ConfigByKey(configs, route.key)
    IN  /\ UNCHANGED <<orderVars, reviewVars, envVars, peripheralVars>>
        /\ IF \/ config = {}
              \/ \E c \in config : "value" \notin DOMAIN c \/ Len(c.value) = 0
           THEN /\ response' = ConfigReply(route, << >>, 200, <<>>)
                /\ listings' = listings
           ELSE /\ BagCardinality(listings) < MaxListingsInFlight
                /\ \E c \in config :
                       listings' = listings (+) SetToBag({[route |-> route, config |-> c]})
                /\ response' = response

\* Product.find({ legacyId: { $in: config.value } }) settles and the
\* handler answers
CuratedFound(l) ==
    /\ BagIn(l, listings)
    /\ listings' = listings (-) SetToBag({l})
    /\ LET found == {p \in products :
                        \E i \in 1..Len(l.config.value) : l.config.value[i] = p.legacyId}
       IN  response' = ConfigReply(l.route, << >>, 200, Curated(l.config.value, found))
    /\ UNCHANGED <<orderVars, reviewVars, envVars, peripheralVars>>

-----------------------------------------------------------------------------
(* Rate limiting.  The three limits and the two windows are scaled down,    *)
(* in the order the source has them: 100, 20 and 10 requests, 15 and 60    *)
(* minutes.                                                                *)

generalLimiter == [name |-> "general", maxRequests |-> GeneralMaxRequests,
                   windowMs |-> ShortWindow]

strictLimiter == [name |-> "strict", maxRequests |-> StrictMaxRequests,
                  windowMs |-> ShortWindow]

uploadLimiter == [name |-> "upload", maxRequests |-> UploadMaxRequests,
                  windowMs |-> UploadWindow]

Limiters == {generalLimiter, strictLimiter, uploadLimiter}

\* `${ip}-${req.path}`
Key(ip, path) == ip \o "-" \o path

\* times.filter(time => now - time < windowMs)
Recent(times, t, windowMs) == SelectSeq(times, LAMBDA time : t - time < windowMs)

\* the middleware simpleRateLimit(maxRequests, windowMs) returns, run at
\* time t for the key: whether it calls next() and the map it leaves;
\* cleanup is the outcome of Math.random() < 0.01
simpleRateLimit(limiter, counts, key, t, cleanup) ==
    LET had == [k \in DOMAIN counts \cup {key} |->
                   IF k \in DOMAIN counts THEN counts[k] ELSE <<>>]
        requests == Recent(had[key], t, limiter.windowMs)
        pushed == [had EXCEPT ![key] = Append(requests, t)]
        kept == {k \in DOMAIN pushed : Recent(pushed[k], t, limiter.windowMs) # <<>>}
    IN  IF Len(requests) >= limiter.maxRequests
        THEN [next |-> FALSE, counts |-> had]
        ELSE [next |-> TRUE,
              counts |-> IF cleanup
                         THEN [k \in kept |-> Recent(pushed[k], t, limiter.windowMs)]
                         ELSE pushed]

\* the routes: the path the route's own limiter sees and the path
\* generalLimiter, mounted at /api/, sees; /api/api/upload matches no route
UploadRoute == [path |-> "/api/upload", mounted |-> "/upload", limiter |-> uploadLimiter]

CreateOrderRoute == [path |-> "/api/razorpay/create-order",
                     mounted |-> "/razorpay/create-order", limiter |-> strictLimiter]

NoRoute == [path |-> "/api/api/upload", mounted |-> "/api/upload"]

Admission(limiter, key) ==
    SetToBag({[limiter |-> limiter.name, key |-> key, time |-> now]})

\* app.use('/api/', generalLimiter), then the route's own limiter: whether
\* the request reaches the handler, the map left and the admissions
Passed(ip, route, cleanup) ==
    LET g == simpleRateLimit(generalLimiter, requestCounts, Key(ip, route.mounted),
                             now, cleanup[1])
        r == simpleRateLimit(route.limiter, g.counts, Key(ip, route.path), now, cleanup[2])
        byGeneral == Admission(generalLimiter, Key(ip, route.mounted))
    IN  IF ~g.next
        THEN [next |-> FALSE, counts |-> g.counts, admits |-> EmptyBag]
        ELSE IF "limiter" \notin DOMAIN route
        THEN [next |-> TRUE, counts |-> g.counts, admits |-> byGeneral]
        ELSE [next |-> r.next, counts |-> r.counts,
              admits |-> IF r.next
                         THEN byGeneral (+) Admission(route.limiter, Key(ip, route.path))
                         ELSE byGeneral]

TooManyRequests(route, req) ==
    [endpoint |-> route.path, req |-> req, status |-> 429,
     body |-> [error |-> "Too many requests, please try again later."]]

\* what every request does to the limiters' state
Limited(p) ==
    /\ requestCounts' = p.counts
    /\ admitted' = admitted (+) p.admits
    /\ now' = now

\* Date.now() moves on
Tick ==
    /\ now < MaxNow
    /\ now' = now + 1
    /\ UNCHANGED <<storeVars, envVars, response, configs, gatewayOrders, requestCounts,
                   admitted, startup, clientVars>>

\* POST /api/upload up to adminAuth, for a request adminAuth turns away
UploadRequest(req, cleanup) ==
    LET p == Passed(req.ip, UploadRoute, cleanup)
    IN  /\ ~adminAuth(req)
        /\ Limited(p)
        /\ response' = IF p.next
                       THEN [endpoint |-> UploadRoute.path, req |-> req, status |-> 401,
                             body |-> [error |-> "Unauthorized"]]
                       ELSE TooManyRequests(UploadRoute, req)
        /\ UNCHANGED <<storeVars, envVars, configs, gatewayOrders, startup, clientVars>>

\* a request under /api/ that matches no route
UnroutedRequest(req, cleanup) ==
    LET p == Passed(req.ip, NoRoute, cleanup)
    IN  /\ Limited(p)
        /\ response' = IF p.next
                       THEN [endpoint |-> NoRoute.path, req |-> req, status |-> 404]
                       ELSE TooManyRequests(NoRoute, req)
        /\ UNCHANGED <<storeVars, envVars, configs, gatewayOrders, startup, clientVars>>

-----------------------------------------------------------------------------
(* POST /api/razorpay/create-order.  A total is kept in thousandths of a    *)
(* rupee: 900000 is Rs 900.                                                *)

\* Math.round(total * 100): Math.round(x) is floor(x + 0.5)
Amount(total) == (total + 5) \div 10

\* the handler behind the limiters; the gateway creates the order, answers
\* nothing or rejects the call
RazorpayCreateOrder(req, gateway) ==
    LET options == [amount |-> Amount(req.total), currency |-> "INR", receipt |-> now]
        reply(status, body) == [endpoint |-> CreateOrderRoute.path, req |-> req,
                                status |-> status, body |-> body]
    IN  IF "total" \notin DOMAIN req \/ req.total = 0
        THEN /\ response' = reply(400, [success |-> FALSE,
                                        error |-> "Total amount is required."])
             /\ gatewayOrders' = gatewayOrders
        ELSE CASE gateway = "created" ->
                      /\ Len(gatewayOrders) < MaxGatewayOrders
                      /\ gatewayOrders' = Append(gatewayOrders, options)
                      /\ response' = reply(200, [success |-> TRUE, order |-> options])
               [] gateway = "nothing" ->
                      /\ gatewayOrders' = gatewayOrders
                      /\ response' = reply(500, "Error creating Razorpay order")
               [] gateway = "rejected" ->
                      /\ gatewayOrders' = gatewayOrders
                      /\ response' = reply(500, [success |-> FALSE,
                                                 error |-> "Internal Server Error"])

CreateOrderRequest(req, cleanup, gateway) ==
    LET p == Passed(req.ip, CreateOrderRoute, cleanup)
    IN  /\ Limited(p)
        /\ IF p.next
           THEN RazorpayCreateOrder(req, gateway)
           ELSE /\ response' = TooManyRequests(CreateOrderRoute, req)
                /\ gatewayOrders' = gatewayOrders
        /\ UNCHANGED <<storeVars, envVars, configs, startup, clientVars>>

-----------------------------------------------------------------------------
(* GET /api/admin/orders/export.  The date of an order is its position in   *)
(* the collection: Date.now at construction grows with the insertions.     *)

headers ==
    <<<<"O", "r", "d", "e", "r", "I", "D">>,
      <<"D", "a", "t", "e">>,
      <<"C", "u", "s", "t", "o", "m", "e", "r", "N", "a", "m", "e">>,
      <<"E", "m", "a", "i", "l">>,
      <<"P", "h", "o", "n", "e">>,
      <<"A", "d", "d", "r", "e", "s", "s">>,
      <<"T", "o", "t", "a", "l">>,
      <<"I", "t", "e", "m", "s">>>>

\* Array.prototype.join
RECURSIVE Join(_, _)
Join(cells, sep) ==
    IF cells = <<>> THEN <<>>
    ELSE IF Len(cells) = 1 THEN cells[1]
    ELSE cells[1] \o sep \o Join(Tail(cells), sep)

\* String(cell) of a number that is an integer
RECURSIVE String(_)
String(n) ==
    IF n < 0 THEN <<"-">> \o String(0 - n)
    ELSE IF n < 10 THEN <<Digits[n + 1]>>
    ELSE String(n \div 10) \o <<Digits[(n % 10) + 1]>>

\* new Date(order.date).toISOString(), shortened to the characters around
\* the instant
ToISOString(date) == <<"T">> \o String(date) \o <<"Z">>

\* str.replace(/"/g, '""')
RECURSIVE DoubleQuotes(_)
DoubleQuotes(str) ==
    IF str = <<>> THEN <<>>
    ELSE (IF Head(str) = "\"" THEN <<"\"", "\"">> ELSE <<Head(str)>>)
         \o DoubleQuotes(Tail(str))

\* an escapeCsvCell that quotes without doubling the quotes inside
escapeCsvCellNotDoubling(str) ==
    IF Includes(str, <<",">>) \/ Includes(str, <<"\"">>) \/ Includes(str, <<"\n">>)
    THEN <<"\"">> \o str \o <<"\"">>
    ELSE str

\* escapeCsvCell of a cell already turned into a string; the cells of a
\* persisted order are never null or undefined
escapeCsvCell(str) ==
    IF Includes(str, <<",">>) \/ Includes(str, <<"\"">>) \/ Includes(str, <<"\n">>)
    THEN <<"\"">> \o DoubleQuotes(str) \o <<"\"">>
    ELSE str

\* `${item.quantity} x ${item.name}`
ItemCell(item) == String(item.quantity) \o <<" ", "x", " ">> \o item.name

\* the eight cells of an order's row before they are escaped
Cells(order, date) ==
    <<order.orderId,
      ToISOString(date),
      order.user.firstname \o <<" ">> \o order.user.lastname,
      order.user.email,
      order.user.phone,
      order.user.address1
          \o (IF "address2" \in DOMAIN order.user /\ order.user.address2 # <<>>
              THEN <<",", " ">> \o order.user.address2 ELSE <<>>)
          \o <<",", " ">> \o order.user.city \o <<",", " ">> \o order.user.state
          \o <<" ">> \o order.user.zip,
      String(order.total),
      Join([i \in 1..Len(order.items) |-> ItemCell(order.items[i])], <<";", " ">>)>>

\* [...].map(escapeCsvCell).join(',')
Row(order, date) ==
    LET cells == Cells(order, date)
    IN  Join([i \in 1..Len(cells) |-> escapeCsvCell(cells[i])], <<",">>)

\* { $regex: search, $options: 'i' } for a search without regex operators
SearchMatch(field, search) == Includes(ToLowerCase(field), ToLowerCase(search))

\* the positions of the orders the query finds, sorted by date descending,
\* at most 1000
Exported(req) ==
    LET found == {i \in 1..Len(orders) :
                     \/ "search" \notin DOMAIN req
                     \/ req.search = <<>>
                     \/ SearchMatch(orders[i].orderId, req.search)
                     \/ SearchMatch(orders[i].user.firstname, req.search)
                     \/ SearchMatch(orders[i].user.lastname, req.search)
                     \/ SearchMatch(orders[i].user.email, req.search)}
        RECURSIVE Descending(_)
        Descending(S) ==
            IF S = {} THEN <<>>
            ELSE LET i == CHOOSE j \in S : \A k \in S : k <= j
                 IN  <<i>> \o Descending(S \ {i})
        sorted == Descending(found)
    IN  SubSeq(sorted, 1, Min(Len(sorted), 1000))

ExportReply(req, status, body) ==
    [endpoint |-> "orders-export", req |-> req, status |-> status, body |-> body]

OrdersExport(req) ==
    LET found == Exported(req)
        csvRows == <<Join(headers, <<",">>)>>
                       \o [i \in 1..Len(found) |-> Row(orders[found[i]], found[i])]
    IN  /\ response' =
               IF ~adminAuth(req)
               THEN ExportReply(req, 401, [error |-> "Unauthorized"])
               ELSE IF Len(found) = 0
               THEN ExportReply(req, 404, "No orders to export.")
               ELSE ExportReply(req, 200, Join(csvRows, <<"\n">>))
        /\ UNCHANGED <<storeVars, envVars, peripheralVars>>

-----------------------------------------------------------------------------
(* startServer of the standalone server.  startup.pc is the statement       *)
(* startServer waits at, readyState is mongoose.connection.readyState,     *)
(* connecting counts the calls of mongoose.connect in flight and timers    *)
(* the pending setTimeout(connectWithRetry, 5000); connected records that  *)
(* some call of mongoose.connect has succeeded.                            *)

NotStarted ==
    [pc |-> "startServer", readyState |-> 0, connecting |-> 0, timers |-> 0,
     attempts |-> 0, onDisconnected |-> FALSE, connected |-> FALSE]

\* products.json: a product with a rating and a review, one with neither
ProductsJson ==
    <<[id |-> 1, name |-> <<"G", "h", "e", "e">>, price |-> 450, category |-> {"Ghee"},
       rating |-> 45,
       reviews |-> <<[user |-> <<"R", "a", "m">>, comment |-> <<"o", "k">>, rating |-> 5]>>],
      [id |-> 2, name |-> <<"B", "u", "t", "t", "e", "r">>, price |-> 100,
       category |-> {"Butter"}]>>

\* startServer() up to await connectWithRetry(), which awaits
\* mongoose.connect(MONGO_URI)
StartServer ==
    /\ startup.pc = "startServer"
    /\ startup' = [startup EXCEPT !.pc = "connectWithRetry", !.connecting = 1,
                                  !.attempts = 1]
    /\ UNCHANGED <<storeVars, envVars, response, configs, gatewayOrders, limiterVars,
                   clientVars>>

\* the mongoose.connect of the first connectWithRetry settles: the catch
\* block sets the retry timer, connectWithRetry returns either way and
\* startServer goes on to register the handler and to call
\* Product.countDocuments()
FirstConnectSettled(ok) ==
    /\ startup.pc = "connectWithRetry"
    /\ startup' = [startup EXCEPT !.pc = "countDocuments",
                                  !.connecting = 0,
                                  !.readyState = IF ok THEN 1 ELSE 0,
                                  !.connected = ok,
                                  !.timers = IF ok THEN 0 ELSE 1,
                                  !.onDisconnected = TRUE]
    /\ UNCHANGED <<storeVars, envVars, response, configs, gatewayOrders, limiterVars,
                   clientVars>>

\* a later mongoose.connect settles
RetrySettled(ok) ==
    /\ startup.pc \notin {"startServer", "connectWithRetry", "exit"}
    /\ startup.connecting > 0
    /\ startup' = [startup EXCEPT !.connecting = @ - 1,
                                  !.readyState = IF ok THEN 1 ELSE @,
                                  !.connected = @ \/ ok,
                                  !.timers = IF ok THEN @ ELSE @ + 1]
    /\ UNCHANGED <<storeVars, envVars, response, configs, gatewayOrders, limiterVars,
                   clientVars>>

\* setTimeout(connectWithRetry, 5000) fires
RetryTimerFired ==
    /\ startup.pc # "exit"
    /\ startup.timers > 0
    /\ startup.attempts < MaxConnectAttempts
    /\ startup' = [startup EXCEPT !.timers = @ - 1, !.connecting = @ + 1,
                                  !.attempts = @ + 1]
    /\ UNCHANGED <<storeVars, envVars, response, configs, gatewayOrders, limiterVars,
                   clientVars>>

\* mongoose.connection.on('disconnected', ...)
Disconnected ==
    /\ startup.pc # "exit"
    /\ startup.readyState = 1
    /\ startup.onDisconnected
    /\ startup.attempts < MaxConnectAttempts
    /\ startup' = [startup EXCEPT !.readyState = 0, !.connecting = @ + 1,
                                  !.attempts = @ + 1]
    /\ UNCHANGED <<storeVars, envVars, response, configs, gatewayOrders, limiterVars,
                   clientVars>>

\* an operation of a model that was called settles: with a connection it
\* runs; without one mongoose holds it back, and it is rejected when no
\* connection comes in time
Settles(ran) == IF ran THEN startup.readyState = 1 ELSE startup.readyState = 0

\* await Product.countDocuments() settles; a rejection ends in
\* process.exit(1)
ProductsCountedAtStartup(ran) ==
    /\ startup.pc = "countDocuments"
    /\ Settles(ran)
    /\ startup' = [startup EXCEPT !.pc = IF ~ran THEN "exit"
                                         ELSE IF products = {} THEN "readFile"
                                         ELSE "listening"]
    /\ UNCHANGED <<storeVars, envVars, response, configs, gatewayOrders, limiterVars,
                   clientVars>>

\* products.json is read and parsed and Product.insertMany is called; a
\* file that cannot be read or parsed is a seedError and app.listen follows
SeedFileRead(ok) ==
    /\ startup.pc = "readFile"
    /\ startup' = [startup EXCEPT !.pc = IF ok THEN "insertProducts" ELSE "listening"]
    /\ UNCHANGED <<storeVars, envVars, response, configs, gatewayOrders, limiterVars,
                   clientVars>>

\* the documents Product.insertMany(productsToSeed) inserts
ProductsToSeed ==
    {[f \in (DOMAIN ProductsJson[i] \ {"reviews", "id"})
            \cup {"_id", "legacyId", "rating", "reviewsCount"} |->
         CASE f = "_id" -> nextObjectId + i - 1
           [] f = "legacyId" -> ProductsJson[i].id
           [] f = "rating" ->
                  IF "rating" \in DOMAIN ProductsJson[i] THEN ProductsJson[i].rating ELSE 0
           [] f = "reviewsCount" ->
                  IF "reviews" \in DOMAIN ProductsJson[i]
                  THEN Len(ProductsJson[i].reviews) ELSE 0
           [] OTHER -> ProductsJson[i][f]] : i \in 1..Len(ProductsJson)}

\* the documents Comment.insertMany(commentsToSeed) inserts
RECURSIVE CommentsToSeed(_)
CommentsToSeed(i) ==
    IF i > Len(ProductsJson) THEN <<>>
    ELSE (IF "reviews" \in DOMAIN ProductsJson[i]
          THEN [r \in 1..Len(ProductsJson[i].reviews) |->
                   [productId |-> ProductsJson[i].id,
                    username |-> Trim(ProductsJson[i].reviews[r].user),
                    comment |-> Trim(ProductsJson[i].reviews[r].comment),
                    rating |-> ProductsJson[i].reviews[r].rating,
                    verifiedPurchase |-> FALSE]]
          ELSE <<>>) \o CommentsToSeed(i + 1)

\* await Product.insertMany(productsToSeed) settles; a rejection is a
\* seedError and app.listen follows
ProductsSeeded(ran) ==
    /\ startup.pc = "insertProducts"
    /\ Settles(ran)
    /\ startup' = [startup EXCEPT !.pc = IF ran THEN "insertComments" ELSE "listening"]
    /\ products' = IF ran THEN products \cup ProductsToSeed ELSE products
    /\ nextObjectId' = IF ran THEN nextObjectId + Len(ProductsJson) ELSE nextObjectId
    /\ UNCHANGED <<orderVars, comments, reviews, listings, envVars, response, configs,
                   gatewayOrders, limiterVars, clientVars>>

\* await Comment.insertMany(commentsToSeed) settles and app.listen follows
CommentsSeeded(ran) ==
    /\ startup.pc = "insertComments"
    /\ Settles(ran)
    /\ startup' = [startup EXCEPT !.pc = "listening"]
    /\ comments' = IF ran THEN comments \o CommentsToSeed(1) ELSE comments
    /\ UNCHANGED <<orderVars, products, reviews, nextObjectId, listings, envVars, response,
                   configs, gatewayOrders, limiterVars, clientVars>>

-----------------------------------------------------------------------------
(* The client's data module.  promises holds the promises the immediately   *)
(* invoked async function returned, inFlightFetch is null or the number of *)
(* one of them, callers holds the calls of loadProducts: the promise a     *)
(* call awaits (null when it returned the cache) and how it ended.  The    *)
(* cache duration, 5000 ms in the source, is scaled down.                  *)

\* localStorage.getItem('goshalaProducts'), parsed
StoredCart == <<[id |-> 1, inCart |-> TRUE, quantity |-> 2]>>

applyCartState(list) ==
    [i \in 1..Len(list) |->
        LET inCart == \E c \in 1..Len(StoredCart) : StoredCart[c].id = list[i].id
        IN  [id |-> list[i].id,
             inCart |-> inCart,
             quantity |-> IF inCart
                          THEN (CHOOSE c \in {StoredCart[k] : k \in 1..Len(StoredCart)} :
                                    c.id = list[i].id).quantity
                          ELSE 0]]

isCacheValid(forceReload) ==
    /\ ~forceReload
    /\ now - lastFetchTime < CacheDuration
    /\ Len(cachedProducts) > 0

\* a loadProducts that never finds a fetch in progress
fetchInProgressNever == FALSE

\* if (inFlightFetch)
fetchInProgress == inFlightFetch # null

\* loadProducts(forceReload) up to its return from the cache or its await
loadProducts(forceReload) ==
    /\ Len(callers) < MaxCalls
    /\ IF isCacheValid(forceReload)
       THEN /\ callers' = Append(callers, [forceReload |-> forceReload, promise |-> null,
                                           state |-> "returned",
                                           value |-> applyCartState(cachedProducts)])
            /\ UNCHANGED <<inFlightFetch, promises>>
       ELSE IF fetchInProgress
       THEN /\ callers' = Append(callers, [forceReload |-> forceReload,
                                           promise |-> inFlightFetch, state |-> "awaiting"])
            /\ UNCHANGED <<inFlightFetch, promises>>
       ELSE /\ promises' = Append(promises, [state |-> "pending", at |-> "fetch"])
            /\ inFlightFetch' = Len(promises) + 1
            /\ callers' = Append(callers, [forceReload |-> forceReload,
                                           promise |-> Len(promises) + 1,
                                           state |-> "awaiting"])
    /\ UNCHANGED <<storeVars, envVars, response, configs, gatewayOrders, limiterVars,
                   startup, cachedProducts, lastFetchTime>>

\* the catch block rethrows while keeping inFlightFetch
RejectedKeepingInFlight(p, error) ==
    /\ promises' = [promises EXCEPT ![p] = [state |-> "rejected", error |-> error]]
    /\ UNCHANGED <<inFlightFetch, cachedProducts, lastFetchTime>>

\* catch: throw; finally: inFlightFetch = null
Rejected(p, error) ==
    /\ promises' = [promises EXCEPT ![p] = [state |-> "rejected", error |-> error]]
    /\ inFlightFetch' = null
    /\ UNCHANGED <<cachedProducts, lastFetchTime>>

\* await fetch('/api/products') settles: a response that is ok, one that
\* is not, the abort of the 10 second timeout (a network error goes the
\* way of the response that is not ok, with another error)
FetchSettled(p, outcome) ==
    /\ p \in 1..Len(promises)
    /\ promises[p].state = "pending"
    /\ promises[p].at = "fetch"
    /\ CASE outcome = "ok" ->
                /\ promises' = [promises EXCEPT ![p].at = "json"]
                /\ UNCHANGED <<inFlightFetch, cachedProducts, lastFetchTime>>
         [] outcome = "notOk" -> Rejected(p, "Failed to fetch products. Status: 500")
         [] outcome = "abort" ->
                Rejected(p, "Request timed out. Please check your connection.")
    /\ UNCHANGED <<storeVars, envVars, response, configs, gatewayOrders, limiterVars,
                   startup, callers>>

\* await response.json() settles with the data or with a SyntaxError
JsonSettled(p, ok, data) ==
    /\ p \in 1..Len(promises)
    /\ promises[p].state = "pending"
    /\ promises[p].at = "json"
    /\ IF ok
       THEN LET productsFromAPI == IF "products" \in DOMAIN data THEN data.products ELSE <<>>
            IN  /\ cachedProducts' = productsFromAPI
                /\ lastFetchTime' = now
                /\ promises' = [promises EXCEPT ![p] = [state |-> "fulfilled",
                                                        value |-> productsFromAPI]]
                /\ inFlightFetch' = null
       ELSE Rejected(p, "SyntaxError")
    /\ UNCHANGED <<storeVars, envVars, response, configs, gatewayOrders, limiterVars,
                   startup, callers>>

\* a call that awaits a settled promise goes on: it returns
\* applyCartState(products) or throws the error
Resumed(c) ==
    /\ c \in 1..Len(callers)
    /\ callers[c].state = "awaiting"
    /\ promises[callers[c].promise].state # "pending"
    /\ LET settled == promises[callers[c].promise]
       IN  callers' = [callers EXCEPT ![c] =
               IF settled.state = "fulfilled"
               THEN [forceReload |-> @.forceReload, promise |-> @.promise,
                     state |-> "returned", value |-> applyCartState(settled.value)]
               ELSE [forceReload |-> @.forceReload, promise |-> @.promise,
                     state |-> "threw", error |-> settled.error]]
    /\ UNCHANGED <<storeVars, envVars, response, configs, gatewayOrders, limiterVars,
                   startup, cachedProducts, lastFetchTime, inFlightFetch, promises>>

-----------------------------------------------------------------------------
(* Requests the clients send *)

Secrets == {<<"k">>, <<"x", "k">>}

OrderIds == {<<"o", "1">>, <<"o", "2">>}
PaymentIds == {<<"p", "1">>}
Signatures == {<<a, b>> : a, b \in {HexDigits[i] : i \in 1..Len(HexDigits)}}

Priya ==
    [firstname |-> <<"P", "r", "i", "y", "a">>,
     lastname |-> <<"S", "h", "a", "r", "m", "a", " ", "R", "e", "d", "d", "y", " ">>,
     email |-> <<"p", "@", "x", ".", "i", "n">>,
     phone |-> <<"9", "1">>,
     address1 |-> <<"1", " ", "M", "G">>,
     city |-> <<"H", "y", "d">>,
     state |-> <<"T", "S">>,
     zip |-> <<"5", "0">>]

Ghee == [id |-> 1, name |-> <<"G", "h", "e", "e">>, quantity |-> 2, price |-> 450]

ValidDetails == [user |-> Priya, items |-> <<Ghee>>, total |-> 900]
EmptyCartDetails == [user |-> Priya, items |-> <<>>, total |-> 0]

Only(obj, F) == [f \in F \cap DOMAIN obj |-> obj[f]]

CaptureFields ==
    {"razorpay_order_id", "razorpay_payment_id", "razorpay_signature", "orderDetails"}

FullCaptureRequests ==
    [razorpay_order_id : OrderIds, razorpay_payment_id : PaymentIds,
     razorpay_signature : Signatures,
     orderDetails : {ValidDetails, EmptyCartDetails}]

\* every full request, and the requests that lack one field or carry an
\* empty string in its place
CaptureRequests ==
    FullCaptureRequests
    \cup {Only(full, CaptureFields \ {f}) :
            full \in {r \in FullCaptureRequests :
                        /\ r.razorpay_order_id = <<"o", "1">>
                        /\ r.orderDetails = ValidDetails},
            f \in CaptureFields}
    \cup {[full EXCEPT !.razorpay_signature = <<>>] :
            full \in {r \in FullCaptureRequests : r.orderDetails = ValidDetails}}

AdminSecrets == {<<"a", "d", "m", "i", "n">>}

StatusRequests ==
    {Only(full, F) :
        full \in [x_admin_secret : AdminSecrets, orderId : OrderIds,
                  status : {"Shipped", "Lost"}],
        F \in {{"orderId", "x_admin_secret"}, {"orderId", "x_admin_secret", "status"}}}
    \cup {[x_admin_secret |-> <<"g", "u", "e", "s", "s">>, orderId |-> <<"o", "1">>,
            status |-> "Shipped"],
           [orderId |-> <<"o", "1">>, status |-> "Shipped"]}
    \cup {[x_admin_secret |-> a, orderId |-> <<"o", "1">>, status |-> ""] :
            a \in AdminSecrets}

\* the :id segment of the path
ProductIds == {<<"1">>, <<"2">>}

ReviewerNames == {<<"P", "r", "i", "y", "a">>}

FullReviewRequests ==
    [id : ProductIds, user : ReviewerNames, rating : {20, 45},
     comment : {<<"o", "k">>}]

\* every full request; a request that lacks one field; ratings of 0, 0.5
\* and 6 stars and of "abc"; a reviewer name of one blank; an id that is
\* no number; a request without comment for the id of no product
ReviewRequests ==
    FullReviewRequests
    \cup {Only(full, {"id", "user", "rating", "comment"} \ {f}) :
            full \in {r \in FullReviewRequests : r.id = <<"1">> /\ r.rating = 20},
            f \in {"user", "rating", "comment"}}
    \cup {[full EXCEPT !.rating = x] :
            full \in {r \in FullReviewRequests : r.id = <<"1">> /\ r.rating = 20},
            x \in {0, 5, 60, NaN}}
    \cup {[full EXCEPT !.user = <<" ">>] :
            full \in {r \in FullReviewRequests : r.id = <<"1">> /\ r.rating = 20}}
    \cup {[full EXCEPT !.id = <<"a">>] :
            full \in {r \in FullReviewRequests : r.id = <<"1">> /\ r.rating = 20}}
    \cup {[id |-> i, user |-> <<"P", "r", "i", "y", "a">>, rating |-> 20] :
            i \in {<<"2">>, <<"a">>}}

GheeProduct == [legacyId |-> 1, name |-> <<"G", "h", "e", "e">>, price |-> 450]

AdminSecret == CHOOSE a \in AdminSecrets : TRUE

ProductCreateRequests ==
    {[x_admin_secret |-> AdminSecret, body |-> GheeProduct],
     [x_admin_secret |-> AdminSecret,
      body |-> [legacyId |-> 1, name |-> <<"G", "h", "e", "e">>, price |-> 450,
                rating |-> 45]],
     [x_admin_secret |-> AdminSecret, body |-> [legacyId |-> 1, price |-> 450]],
     [body |-> GheeProduct]}

ProductUpdateRequests ==
    {[x_admin_secret |-> AdminSecret, id |-> <<"1">>, body |-> [price |-> 450]],
     [x_admin_secret |-> AdminSecret, id |-> <<"1">>,
      body |-> [rating |-> 45, reviewsCount |-> 1]],
     [x_admin_secret |-> AdminSecret, id |-> <<"1">>, body |-> [name |-> <<"G">>]],
     [x_admin_secret |-> AdminSecret, id |-> <<"2">>, body |-> [price |-> 450]],
     [x_admin_secret |-> AdminSecret, id |-> <<"a">>, body |-> [price |-> 450]],
     [id |-> <<"1">>, body |-> [rating |-> 45]]}

ProductDeleteRequests ==
    {[x_admin_secret |-> AdminSecret, id |-> <<"1">>],
     [x_admin_secret |-> AdminSecret, id |-> <<"2">>],
     [x_admin_secret |-> AdminSecret, id |-> <<"a">>],
     [id |-> <<"1">>]}

-----------------------------------------------------------------------------
(* Specifications *)

\* no Config, no gateway order, no request seen by a limiter, a server not
\* yet started and a client that has loaded nothing
PeripheralInit ==
    /\ configs = {}
    /\ gatewayOrders = <<>>
    /\ requestCounts = [k \in {} |-> <<>>]
    /\ now = 0
    /\ admitted = EmptyBag
    /\ startup = NotStarted
    /\ cachedProducts = <<>>
    /\ lastFetchTime = 0
    /\ inFlightFetch = null
    /\ promises = <<>>
    /\ callers = <<>>

\* the catalog after product 1 was created: no Comment, rating 0
SeededProducts == {NewProduct(GheeProduct, 1)}

\* the order creation pipeline and the admin's order updates
Init ==
    /\ RAZORPAY_KEY_SECRET \in Secrets
    /\ ADMIN_SECRET \in AdminSecrets
    /\ orders = <<>>
    /\ pendingOrderSaves = EmptyBag
    /\ products = SeededProducts
    /\ comments = <<>>
    /\ reviews = EmptyBag
    /\ nextObjectId = 2
    /\ listings = EmptyBag
    /\ PeripheralInit
    /\ response = NoResponse

CaptureReceived == \E req \in CaptureRequests : Capture(req)

CaptureSaved == \E p \in BagToSet(pendingOrderSaves) : CaptureSave(p)

OrderStatusUpdated == \E req \in StatusRequests : AdminUpdateOrderStatus(req)

NextCapture == CaptureReceived \/ CaptureSaved \/ OrderStatusUpdated

SpecCapture == Init /\ [][NextCapture]_vars

\* an Order a verified capture has persisted
PriyaOrder ==
    NewOrder([razorpay_order_id |-> <<"o", "1">>, razorpay_payment_id |-> <<"p", "1">>,
              razorpay_signature |->
                  HmacSha256Hex(<<"k">>, <<"o", "1", "|", "p", "1">>),
              orderDetails |-> ValidDetails])

InitCatalog ==
    /\ RAZORPAY_KEY_SECRET = <<"k">>
    /\ ADMIN_SECRET \in AdminSecrets
    /\ orders = <<PriyaOrder>>
    /\ pendingOrderSaves = EmptyBag
    /\ products = SeededProducts
    /\ comments = <<>>
    /\ reviews = EmptyBag
    /\ nextObjectId = 2
    /\ listings = EmptyBag
    /\ PeripheralInit
    /\ response = NoResponse

ReviewReceived == \E req \in ReviewRequests : ReviewFindProduct(req)

OrdersFound == \E r \in BagToSet(reviews) : ReviewFindOrders(r)

CommentSaved == \E r \in BagToSet(reviews) : ReviewSaveComment(r)

Aggregated == \E r \in BagToSet(reviews) : ReviewAggregate(r)

ProductSaved == \E r \in BagToSet(reviews) : ReviewSaveProduct(r)

\* review submissions that overlap freely
NextReviews ==
    ReviewReceived \/ OrdersFound \/ CommentSaved \/ Aggregated \/ ProductSaved

SpecReviews == InitCatalog /\ [][NextReviews]_vars

ReviewReceivedInTurn == reviews = EmptyBag /\ ReviewReceived

\* review submissions sent one after another
NextReviewsInTurn ==
    ReviewReceivedInTurn \/ OrdersFound \/ CommentSaved \/ Aggregated \/ ProductSaved

SpecReviewsInTurn == InitCatalog /\ [][NextReviewsInTurn]_vars

\* review submissions that overlap until MaxOverlappingComments Comments are
\* stored or in the making; from then on a submission is sent when none is
\* in progress and none is sent while it is
ReviewReceivedOverlappingAtFirst ==
    /\ \/ Len(comments) + BagCardinality(reviews) < MaxOverlappingComments
       \/ reviews = EmptyBag
    /\ ReviewReceived

NextReviewsThenAlone ==
    \/ ReviewReceivedOverlappingAtFirst
    \/ OrdersFound \/ CommentSaved \/ Aggregated \/ ProductSaved

SpecReviewsThenAlone == InitCatalog /\ [][NextReviewsThenAlone]_vars

StoreFailed == \E r \in BagToSet(reviews) : ReviewStoreFailure(r)

\* review submissions sent one after another to a store whose calls may fail
NextReviewsFailing ==
    \/ ReviewReceivedInTurn \/ OrdersFound \/ CommentSaved \/ Aggregated \/ ProductSaved
    \/ StoreFailed

SpecReviewsFailing == InitCatalog /\ [][NextReviewsFailing]_vars

ProductCreated == \E req \in ProductCreateRequests : ProductCreate(req)

ProductUpdated == \E req \in ProductUpdateRequests : ProductUpdate(req)

ProductDeleted == \E req \in ProductDeleteRequests : ProductDelete(req)

\* review submissions sent one after another, and the admin's product
\* requests arriving at any moment
NextCatalog ==
    \/ ReviewReceivedInTurn \/ OrdersFound \/ CommentSaved \/ Aggregated \/ ProductSaved
    \/ ProductCreated \/ ProductUpdated \/ ProductDeleted

SpecCatalog == InitCatalog /\ [][NextCatalog]_vars

\* a server started with ADMIN_SECRET set or not set in its environment,
\* with one product and one order
InitAdmin ==
    /\ RAZORPAY_KEY_SECRET = <<"k">>
    /\ ADMIN_SECRET \in AdminSecrets \cup {undefined}
    /\ orders = <<PriyaOrder>>
    /\ pendingOrderSaves = EmptyBag
    /\ products = SeededProducts
    /\ comments = <<>>
    /\ reviews = EmptyBag
    /\ nextObjectId = 2
    /\ listings = EmptyBag
    /\ PeripheralInit
    /\ response = NoResponse

\* the admin-gated product and order routes
NextAdmin == ProductCreated \/ ProductUpdated \/ ProductDeleted \/ OrderStatusUpdated

SpecAdmin == InitAdmin /\ [][NextAdmin]_vars

\* the shop from its first order on: three customers pay for their orders,
\* reviewers of product 1 write one after another, and the admin updates an
\* order and edits and deletes the product
Ram == [Priya EXCEPT !.firstname = <<"R", "a", "m">>, !.lastname = <<"K">>]

Butter == [id |-> 2, name |-> <<"B", "u", "t", "t", "e", "r">>, quantity |-> 1,
           price |-> 100]

Paid(orderId, details) ==
    [razorpay_order_id |-> orderId, razorpay_payment_id |-> <<"p", "1">>,
     razorpay_signature |->
         HmacSha256Hex(<<"k">>, orderId \o <<"|">> \o <<"p", "1">>),
     orderDetails |-> details]

ShopCaptureRequests ==
    {Paid(<<"o", "1">>, ValidDetails),
     Paid(<<"o", "2">>, [user |-> Priya, items |-> <<Butter>>, total |-> 100]),
     Paid(<<"o", "3">>, [user |-> Ram, items |-> <<Ghee>>, total |-> 900])}

ShopReviewerNames ==
    {<<" ", "P", "R", "i", "y", "A", " ", "S", "h", "a", "r", "m", "a", " ">>,
     <<"p", "r", "i", "y", "a", " ", "r", "e", "d", "d", "y">>}

ShopReviewRequests ==
    [id : {<<"1">>}, user : ShopReviewerNames, rating : {20},
     comment : {<<"o", "k">>}]

InitShop ==
    /\ RAZORPAY_KEY_SECRET = <<"k">>
    /\ ADMIN_SECRET \in AdminSecrets
    /\ orders = <<>>
    /\ pendingOrderSaves = EmptyBag
    /\ products = SeededProducts
    /\ comments = <<>>
    /\ reviews = EmptyBag
    /\ nextObjectId = 2
    /\ listings = EmptyBag
    /\ PeripheralInit
    /\ response = NoResponse

OrderPaid == \E req \in ShopCaptureRequests : Capture(req)

OrderShipped ==
    AdminUpdateOrderStatus([x_admin_secret |-> AdminSecret, orderId |-> <<"o", "1">>,
                            status |-> "Shipped"])

ShopReviewReceived ==
    reviews = EmptyBag /\ \E req \in ShopReviewRequests : ReviewFindProduct(req)

ProductEdited ==
    ProductUpdate([x_admin_secret |-> AdminSecret, id |-> <<"1">>,
                   body |-> [price |-> 450]])

ProductRemoved == ProductDelete([x_admin_secret |-> AdminSecret, id |-> <<"1">>])

ProductAdded == ProductCreate([x_admin_secret |-> AdminSecret, body |-> GheeProduct])

\* orders and reviews
NextOrdersAndReviews ==
    \/ OrderPaid \/ CaptureSaved
    \/ ShopReviewReceived \/ OrdersFound \/ CommentSaved \/ Aggregated \/ ProductSaved

SpecOrdersAndReviews == InitShop /\ [][NextOrdersAndReviews]_vars

PriyaPaid == Capture(Paid(<<"o", "1">>, ValidDetails))

PriyaReviewed ==
    /\ reviews = EmptyBag
    /\ ReviewFindProduct(
           [id |-> <<"1">>, rating |-> 20, comment |-> <<"o", "k">>,
            user |-> <<" ", "P", "R", "i", "y", "A", " ", "S", "h", "a", "r", "m", "a", " ">>])

\* every operation on orders, products and reviews, one request of each kind
NextShop ==
    \/ PriyaPaid \/ CaptureSaved \/ OrderShipped
    \/ PriyaReviewed \/ OrdersFound \/ CommentSaved \/ Aggregated \/ ProductSaved
    \/ ProductEdited \/ ProductRemoved \/ ProductAdded

SpecShop == InitShop /\ [][NextShop]_vars

\* GET /api/products: pages 1 to 3 of 10, pages 1 and 2 of 50, page 2 of 1;
\* no page, no limit; a page of 0, -1 and "abc"; a limit of 1000, 0 and
\* "abc"; page 2 of 10 by price, by date, and of one category; a search
ListingRequests ==
    [page : {<<"1">>, <<"2">>, <<"3">>}, limit : {<<"1", "0">>}]
    \cup [page : {<<"1">>, <<"2">>}, limit : {<<"5", "0">>}]
    \cup {[page |-> <<"2">>, limit |-> <<"1">>]}
    \cup {[page |-> <<"2">>], [limit |-> <<"2">>], << >>}
    \cup {[page |-> p, limit |-> <<"1", "0">>] :
            p \in {<<"0">>, <<"-", "1">>, <<"a", "b", "c">>}}
    \cup {[page |-> <<"1">>, limit |-> l] :
            l \in {<<"1", "0", "0", "0">>, <<"0">>, <<"a", "b", "c">>}}
    \cup {[page |-> <<"2">>, limit |-> <<"1", "0">>, sort |-> s] :
            s \in {"newest", "price-desc"}}
    \cup {[page |-> <<"2">>, limit |-> <<"1", "0">>, category |-> c] :
            c \in {"Ghee"}}
    \cup {[page |-> <<"1">>, limit |-> <<"1", "0">>, search |-> <<"2">>]}

\* the n-th product of the catalog: prices differ, and every other product
\* is Ghee
Stocked(n) ==
    [_id |-> n, legacyId |-> n, name |-> <<"G", "h", "e", "e">>,
     price |-> 10 * ((7 * n) % 59), rating |-> 0, reviewsCount |-> 0,
     category |-> IF n % 2 = 1 THEN {"Ghee"} ELSE {"Butter"}]

\* a catalog of no product, of 25 or of MaxCatalog products
InitListing ==
    /\ RAZORPAY_KEY_SECRET = <<"k">>
    /\ ADMIN_SECRET \in AdminSecrets
    /\ orders = <<>>
    /\ pendingOrderSaves = EmptyBag
    /\ \E T \in {0, 25, MaxCatalog} :
           /\ products = {Stocked(n) : n \in 1..T}
           /\ nextObjectId = T + 1
    /\ comments = <<>>
    /\ reviews = EmptyBag
    /\ listings = EmptyBag
    /\ PeripheralInit
    /\ response = NoResponse

ListingRequested == \E req \in ListingRequests : ProductsCounted(req)

ListingAnswered == \E l \in BagToSet(listings) : ProductsFound(l)

\* listings, and the admin deleting product 1
NextListing == ListingRequested \/ ListingAnswered \/ ProductRemoved

SpecListing == InitListing /\ [][NextListing]_vars

\* the lists the admin curates: three products of which one never was in
\* the catalog, a list that names a product twice, no list
ConfigPutRequests ==
    {[x_admin_secret |-> AdminSecret, productIds |-> v] :
        v \in {<<3, 1, 2>>, <<2, 9, 1>>, <<1, 1>>, <<>>}}
    \cup {[x_admin_secret |-> AdminSecret], [productIds |-> <<3>>]}

\* a catalog of three products
InitCurated ==
    /\ RAZORPAY_KEY_SECRET = <<"k">>
    /\ ADMIN_SECRET \in AdminSecrets
    /\ orders = <<>>
    /\ pendingOrderSaves = EmptyBag
    /\ products = {Stocked(n) : n \in 1..3}
    /\ comments = <<>>
    /\ reviews = EmptyBag
    /\ nextObjectId = 4
    /\ listings = EmptyBag
    /\ PeripheralInit
    /\ response = NoResponse

ConfigPut ==
    \E route \in ConfigRoutes, req \in ConfigPutRequests : AdminPutConfig(route, req)

CuratedListingRequested == \E route \in ConfigRoutes : CuratedRequested(route)

CuratedListingAnswered == \E l \in BagToSet(listings) : CuratedFound(l)

\* the admin curates the two lists and deletes products while the lists are
\* read
NextCurated ==
    ConfigPut \/ CuratedListingRequested \/ CuratedListingAnswered \/ ProductDeleted

SpecCurated == InitCurated /\ [][NextCurated]_vars

\* one client address
Ips == {"1.1.1.1"}

\* Math.random() < 0.01 in the two limiters a request passes
Cleanups == [1..2 -> BOOLEAN]

\* totals of Rs 900, Rs 0.125 and Rs 0.004, no total, a total of 0, a
\* negative total
CreateOrderRequests ==
    {[ip |-> ip, total |-> t] : ip \in Ips, t \in {900000, 125, 4, 0, -900000}}
    \cup {[ip |-> ip] : ip \in Ips}

GatewayOutcomes == {"created", "nothing", "rejected"}

UploadRequested ==
    \E ip \in Ips, cleanup \in Cleanups : UploadRequest([ip |-> ip], cleanup)

UnroutedRequested ==
    \E ip \in Ips, cleanup \in Cleanups : UnroutedRequest([ip |-> ip], cleanup)

CreateOrderRequested ==
    \E req \in CreateOrderRequests, cleanup \in Cleanups, gateway \in GatewayOutcomes :
        CreateOrderRequest(req, cleanup, gateway)

\* a create-order request without a total
TotalMissing ==
    \E ip \in Ips, cleanup \in Cleanups : CreateOrderRequest([ip |-> ip], cleanup, "nothing")

\* requests to the limited routes as time passes
NextLimited == Tick \/ UploadRequested \/ UnroutedRequested \/ TotalMissing

SpecLimited == InitCurated /\ [][NextLimited]_vars

\* payment intents are created as time passes
NextGateway == Tick \/ CreateOrderRequested

SpecGateway == InitCurated /\ [][NextGateway]_vars

\* customers whose fields hold a comma, a quote, a newline, a lone quote
Doe == [Priya EXCEPT !.firstname = <<"J", "o">>, !.lastname = <<"D", "o", "e", ",", " ", "J", "r">>]

Quoting == [g \in DOMAIN Priya \cup {"address2"} |->
               CASE g = "address1" -> <<"5", "\"", " ", "R", "d">>
                 [] g = "address2" -> <<"F", "l", "a", "t", " ", "2">>
                 [] OTHER -> Priya[g]]

Multiline == [Priya EXCEPT !.city = <<"H", "y", "d", "\n", "W", "e", "s", "t">>, !.firstname = <<"\"">>]

GheeLitre == [Ghee EXCEPT !.name = <<"G", "h", "e", "e", ",", " ", "1", "L">>]

ExportDetails ==
    {[user |-> Priya, items |-> <<Ghee>>, total |-> 900],
     [user |-> Ram, items |-> <<Ghee, Butter>>, total |-> 1000],
     [user |-> Doe, items |-> <<Butter>>, total |-> 100],
     [user |-> Quoting, items |-> <<GheeLitre, Butter>>, total |-> 1000],
     [user |-> Multiline, items |-> <<GheeLitre>>, total |-> 900],
     [user |-> [Priya EXCEPT !.phone = <<",">>], items |-> <<Ghee>>, total |-> 0]}

ExportRequests ==
    {[x_admin_secret |-> AdminSecret],
     [x_admin_secret |-> AdminSecret, search |-> <<"r", "a", "m">>],
     [search |-> <<"r", "a", "m">>]}

\* up to MaxExported orders were paid for
InitExport ==
    /\ RAZORPAY_KEY_SECRET = <<"k">>
    /\ ADMIN_SECRET \in AdminSecrets
    /\ \E n \in 0..MaxExported :
           \E d \in [1..n -> ExportDetails] :
               /\ \A i, j \in 1..n : d[i] = d[j] => i = j
               /\ orders = [i \in 1..n |-> NewOrder(Paid(<<"o">> \o String(i), d[i]))]
    /\ pendingOrderSaves = EmptyBag
    /\ products = {}
    /\ comments = <<>>
    /\ reviews = EmptyBag
    /\ nextObjectId = 1
    /\ listings = EmptyBag
    /\ PeripheralInit
    /\ response = NoResponse

OrdersExported == \E req \in ExportRequests : OrdersExport(req)

NextExport == OrdersExported

SpecExport == InitExport /\ [][NextExport]_vars

\* the standalone server starts on an empty database or on one that has
\* a product
InitStartup ==
    /\ RAZORPAY_KEY_SECRET = <<"k">>
    /\ ADMIN_SECRET \in AdminSecrets
    /\ orders = <<>>
    /\ pendingOrderSaves = EmptyBag
    /\ products \in {{}, {Stocked(1)}}
    /\ comments = <<>>
    /\ reviews = EmptyBag
    /\ nextObjectId = 2
    /\ listings = EmptyBag
    /\ PeripheralInit
    /\ response = NoResponse

ConnectSettled == \E ok \in BOOLEAN : FirstConnectSettled(ok) \/ RetrySettled(ok)

StartupProductsCounted == \E ran \in BOOLEAN : ProductsCountedAtStartup(ran)

Seeding ==
    \E ran \in BOOLEAN : SeedFileRead(ran) \/ ProductsSeeded(ran) \/ CommentsSeeded(ran)

NextStartup ==
    \/ StartServer
    \/ ConnectSettled
    \/ RetryTimerFired
    \/ Disconnected
    \/ StartupProductsCounted
    \/ Seeding

SpecStartup == InitStartup /\ [][NextStartup]_vars

\* what /api/products answers: two products, no products field
ProductsData ==
    {[products |-> <<[id |-> 1], [id |-> 2]>>, hasMore |-> FALSE],
     [hasMore |-> FALSE]}

FetchOutcomes == {"ok", "notOk", "abort"}

ProductsLoaded == \E forceReload \in BOOLEAN : loadProducts(forceReload)

FetchAnswered ==
    \E p \in 1..Len(promises), outcome \in FetchOutcomes : FetchSettled(p, outcome)

JsonRead ==
    \E p \in 1..Len(promises), ok \in BOOLEAN, data \in ProductsData : JsonSettled(p, ok, data)

CallerResumed == \E c \in 1..Len(callers) : Resumed(c)

\* pages call loadProducts as time passes
NextClient == Tick \/ ProductsLoaded \/ FetchAnswered \/ JsonRead \/ CallerResumed

SpecClient == InitCurated /\ [][NextClient]_vars

\* carts the checkout page can post: one and two items, no item, a quantity
\* of 0, a negative price next to a good item, a negative total
CartDetails ==
    {ValidDetails,
     [user |-> Priya, items |-> <<Ghee, Butter>>, total |-> 1000],
     EmptyCartDetails,
     [user |-> Priya, items |-> <<[Ghee EXCEPT !.quantity = 0]>>, total |-> 0],
     [user |-> Priya, items |-> <<Ghee, [Butter EXCEPT !.price = -100]>>, total |-> 800],
     [user |-> Priya, items |-> <<Ghee>>, total |-> -900]}

CartCaptureRequests == {Paid(id, d) : id \in OrderIds, d \in CartDetails}

CartPaid == \E req \in CartCaptureRequests : Capture(req)

NextCheckout == CartPaid \/ CaptureSaved \/ OrderShipped

\* signed captures of every cart, and the shipping of the first Order
SpecCheckout == InitShop /\ [][NextCheckout]_vars

-----------------------------------------------------------------------------
(* Properties of the order creation pipeline *)

ExpectedSignature(req) ==
    HmacSha256Hex(RAZORPAY_KEY_SECRET,
                  req.razorpay_order_id \o <<"|">> \o req.razorpay_payment_id)

\* the request carries all four fields, none of them an empty string
AllFieldsPresent(req) ==
    /\ CaptureFields \subseteq DOMAIN req
    /\ req.razorpay_order_id # <<>>
    /\ req.razorpay_payment_id # <<>>
    /\ req.razorpay_signature # <<>>

CaptureAnswered == response.endpoint = "capture"

\* this step answers a capture request
CaptureAnswers == response' # response /\ response'.endpoint = "capture"

\* this step is the settling of one newOrder.save()
SaveSettles ==
    BagCardinality(pendingOrderSaves') < BagCardinality(pendingOrderSaves)

OrdersWithId(id) == {i \in 1..Len(orders) : orders[i].orderId = id}

DiffersInOneCharacter(s, t) ==
    /\ Len(s) = Len(t)
    /\ Cardinality({i \in 1..Len(s) : s[i] # t[i]}) = 1

C3_ExactlyOneOrderPerValidSignature ==
    /\ \A i, j \in 1..Len(orders) : orders[i].orderId = orders[j].orderId => i = j
    /\ (/\ CaptureAnswered
        /\ AllFieldsPresent(response.req)
        /\ response.req.razorpay_signature = ExpectedSignature(response.req))
       => Cardinality(OrdersWithId(response.req.razorpay_order_id)) = 1

\* C3 amended: no two persisted Orders share an orderId, and once a capture
\* request with a valid signature and orderDetails that pass the Order
\* schema has been settled, exactly one Order with its orderId is persisted,
\* however many such requests were sent and however their saves interleave.
C3_ExactlyOneOrderPerValidCapture ==
    /\ \A i, j \in 1..Len(orders) : orders[i].orderId = orders[j].orderId => i = j
    /\ (/\ CaptureAnswered
        /\ AllFieldsPresent(response.req)
        /\ response.req.razorpay_signature = ExpectedSignature(response.req)
        /\ OrderSchemaValid(NewOrder(response.req)))
       => Cardinality(OrdersWithId(response.req.razorpay_order_id)) = 1

\* a valid capture was turned away as a duplicate while another save for the
\* same orderId was still in flight
C3_Witness ==
    /\ CaptureAnswered
    /\ response.status = 500
    /\ AllFieldsPresent(response.req)
    /\ OrderSchemaValid(NewOrder(response.req))
    /\ Cardinality(OrdersWithId(response.req.razorpay_order_id)) = 1
    /\ \E p \in BagToSet(pendingOrderSaves) :
           /\ p.newOrder.orderId = response.req.razorpay_order_id
           /\ OrderSchemaValid(p.newOrder)

\* C4: a capture with a valid signature whose orderId already belongs to a
\* persisted Order is answered 409 or 400, not 500, and the save leaves the
\* Order collection as it was.
C4_DuplicateCaptureIsConflict ==
    [][(SaveSettles /\ OrderIdTaken(orders, response'.req.razorpay_order_id))
           => (response'.status \in {400, 409} /\ orders' = orders)]_vars

\* C5: a capture request that carries all four fields and a signature other
\* than the HMAC is answered 400 "Invalid signature", and neither the Order
\* collection nor the set of saves in flight changes.
C5_InvalidSignatureRejected ==
    [][(/\ CaptureAnswers
        /\ AllFieldsPresent(response'.req)
        /\ response'.req.razorpay_signature # ExpectedSignature(response'.req))
           => /\ response'.status = 400
              /\ response'.body = [success |-> FALSE, error |-> "Invalid signature"]
              /\ orders' = orders
              /\ pendingOrderSaves' = pendingOrderSaves]_vars

\* a forged signature was rejected while an Order was already persisted
C5_Witness ==
    /\ CaptureAnswered
    /\ AllFieldsPresent(response.req)
    /\ response.req.razorpay_signature # ExpectedSignature(response.req)
    /\ response.body = [success |-> FALSE, error |-> "Invalid signature"]
    /\ Len(orders) >= 1

\* C6: a capture request in which one of the four fields is absent (or an
\* empty string) is answered 400 before any HMAC is computed, and neither
\* the Order collection nor the set of saves in flight changes.
C6_MissingFieldRejected ==
    [][(CaptureAnswers /\ ~AllFieldsPresent(response'.req))
           => /\ response'.status = 400
              /\ response'.body.success = FALSE
              /\ response'.hmacCalls = 0
              /\ orders' = orders
              /\ pendingOrderSaves' = pendingOrderSaves]_vars

\* a request without orderDetails, its signature valid, was answered 400
C6_Witness ==
    /\ CaptureAnswered
    /\ "orderDetails" \notin DOMAIN response.req
    /\ {"razorpay_order_id", "razorpay_payment_id", "razorpay_signature"}
           \subseteq DOMAIN response.req
    /\ response.req.razorpay_signature = ExpectedSignature(response.req)
    /\ response.status = 400
    /\ response.hmacCalls = 0

\* C7: verification succeeds exactly for the signature equal to the HMAC: a
\* save is in flight only for such a request, a request that passed the
\* required-field check reaches the save iff its signature equals the HMAC
\* and is otherwise answered "Invalid signature"; in particular a signature
\* one character away from the HMAC is rejected.
C7_VerifiedIffSignatureIsHmac ==
    /\ \A p \in BagToSet(pendingOrderSaves) :
           p.req.razorpay_signature = ExpectedSignature(p.req)
    /\ (CaptureAnswered /\ AllFieldsPresent(response.req)) =>
           /\ response.status \in {200, 500}
                  <=> response.req.razorpay_signature = ExpectedSignature(response.req)
           /\ (response.status = 400 /\ response.body.error = "Invalid signature")
                  <=> response.req.razorpay_signature # ExpectedSignature(response.req)
           /\ DiffersInOneCharacter(response.req.razorpay_signature,
                                    ExpectedSignature(response.req))
                  => response.status = 400

\* a signature that differs from the HMAC in its last character only was
\* rejected
C7_Witness ==
    /\ CaptureAnswered
    /\ AllFieldsPresent(response.req)
    /\ DiffersInOneCharacter(response.req.razorpay_signature,
                             ExpectedSignature(response.req))
    /\ Head(response.req.razorpay_signature) = Head(ExpectedSignature(response.req))
    /\ response.status = 400

\* the Order that the claim describes for a request
ConfirmedOrderOf(req, doc) ==
    /\ doc.orderId = req.razorpay_order_id
    /\ doc.paymentStatus = "confirmed"
    /\ doc.razorpay = [orderId |-> req.razorpay_order_id,
                       paymentId |-> req.razorpay_payment_id,
                       signature |-> req.razorpay_signature]
    /\ doc.shippingStatus = "Pending"

\* C8 as stated: when the save of a capture with a matching signature
\* settles and its orderId is new, the Order is persisted with orderId =
\* gatewayOrderId, paymentStatus confirmed, the gateway reference and
\* shippingStatus Pending, and the answer is 200 with that orderId.
C8_VerifiedCaptureIsPersisted ==
    [][(SaveSettles /\ ~OrderIdTaken(orders, response'.req.razorpay_order_id))
           => /\ response'.status = 200
              /\ response'.body.success = TRUE
              /\ response'.body.orderId = response'.req.razorpay_order_id
              /\ Len(orders') = Len(orders) + 1
              /\ SubSeq(orders', 1, Len(orders)) = orders
              /\ ConfirmedOrderOf(response'.req, orders'[Len(orders')])]_vars

\* C8 amended: the same, for a capture whose orderDetails pass the Order
\* schema (a verified capture whose orderDetails fail it is answered 500 and
\* persists nothing).
C8_ValidCaptureIsPersisted ==
    [][(/\ SaveSettles
        /\ ~OrderIdTaken(orders, response'.req.razorpay_order_id)
        /\ OrderSchemaValid(NewOrder(response'.req)))
           => /\ response'.status = 200
              /\ response'.body.success = TRUE
              /\ response'.body.orderId = response'.req.razorpay_order_id
              /\ Len(orders') = Len(orders) + 1
              /\ SubSeq(orders', 1, Len(orders)) = orders
              /\ ConfirmedOrderOf(response'.req, orders'[Len(orders')])]_vars

\* a verified capture was answered 200 and its Order is the newest one
C8_Witness ==
    /\ CaptureAnswered
    /\ response.status = 200
    /\ Len(orders) >= 1
    /\ ConfirmedOrderOf(response.req, orders[Len(orders)])
    /\ response.body.orderId = orders[Len(orders)].orderId

-----------------------------------------------------------------------------
(* Properties of the review pipeline *)

\* the path segment id is the decimal numeral of the one-digit legacyId
Names(id, legacyId) == legacyId \in 0..9 /\ id = <<Digits[legacyId + 1]>>

\* the mean of the ratings of cs rounded to one decimal, in tenths: the
\* tenth t with t - 0.5 <= 10 * mean < t + 0.5
MeanRoundedToTenths(cs) ==
    LET n == Len(cs)
        s == SumOfRatings(cs)
    IN  CHOOSE t \in 0..50 : 2 * n * t - n <= 20 * s /\ 20 * s < 2 * n * t + n

\* the product carries the aggregate of the N Comments stored for it
CarriesAggregate(p) ==
    LET cs == CommentsOf(comments, p.legacyId)
    IN  /\ p.rating = (IF cs = <<>> THEN 0 ELSE MeanRoundedToTenths(cs))
        /\ p.reviewsCount = Len(cs)

Reviewed(p) == CommentsOf(comments, p.legacyId) # <<>>

\* C2, as the claim states it: once N review submissions for a product have
\* all completed, under any interleaving of their steps, the product's
\* rating is the mean of the N ratings rounded to one decimal and its
\* reviewsCount is N.
C2_RatingIsRoundedMeanUnderAnyInterleaving ==
    reviews = EmptyBag =>
        \A p \in products : Reviewed(p) => CarriesAggregate(p)

\* The sequential case: when the N review submissions are handled one after
\* another, each stores the whole stars of the rating it was sent, and once
\* it has completed the product's rating is the mean of the N stored ratings
\* rounded to one decimal and its reviewsCount is N, which are also the
\* newRating and newReviewsCount of its 201 response.
RatingIsRoundedMeanInTurn ==
    reviews = EmptyBag =>
        /\ \A p \in products : Reviewed(p) => CarriesAggregate(p)
        /\ response.endpoint = "review" /\ response.status = 201 =>
               LET stored == comments[Len(comments)]
                   cs == CommentsOf(comments, stored.productId)
               IN  /\ stored = response.body.newComment
                   /\ Names(response.req.id, stored.productId)
                   /\ 10 * stored.rating <= response.req.rating
                   /\ response.req.rating < 10 * stored.rating + 10
                   /\ response.body.newRating = MeanRoundedToTenths(cs)
                   /\ response.body.newReviewsCount = Len(cs)

\* three submissions of 2, 2 and 4 stars have completed one after another:
\* the mean 2.67 is stored as 2.7
RoundedMeanInTurnReached ==
    /\ reviews = EmptyBag
    /\ response.endpoint = "review" /\ response.status = 201
    /\ \E p \in products :
           /\ Len(CommentsOf(comments, p.legacyId)) = 3
           /\ p.rating = 27
           /\ p.reviewsCount = 3

\* C9, as the claim states it: whenever no review submission is in progress,
\* after any sequence of review submissions and admin product requests,
\* every product's rating and reviewsCount are the aggregate of the Comments
\* stored for it, and only a step of the review pipeline changes the rating
\* or the reviewsCount of a product.
C9_AggregateIsDerivedOnlyByReviews ==
    /\ [](reviews = EmptyBag => \A p \in products : CarriesAggregate(p))
    /\ [][\A p \in products : \A q \in products' :
              /\ p._id = q._id
              /\ p.rating # q.rating \/ p.reviewsCount # q.reviewsCount
              => ProductSaved]_vars

\* C10, as the claim states it: a review submission whose product id
\* resolves to no Product is answered 404 and ends there; the Comments, the
\* products and the submissions in progress are unchanged.
C10_UnknownProductIs404 ==
    [][\A req \in ReviewRequests :
           /\ ReviewFindProduct(req)
           /\ ~ \E p \in products : Names(req.id, p.legacyId)
           => /\ response'.endpoint = "review"
              /\ response'.req = req
              /\ response'.status = 404
              /\ comments' = comments
              /\ products' = products
              /\ reviews' = reviews]_vars

\* The case of a numeral: a review submission whose product id is the
\* numeral of an integer that no Product carries is answered 404 and ends
\* there, and a review submission for whatever id that finds no Product
\* changes no Comment and no product.
UnknownIntegerIdIs404 ==
    [][\A req \in ReviewRequests :
           /\ ReviewFindProduct(req)
           /\ ~ \E p \in products : Names(req.id, p.legacyId)
           => /\ response'.endpoint = "review"
              /\ response'.req = req
              /\ (\E n \in 0..9 : Names(req.id, n)) => response'.status = 404
              /\ response'.status \in {404, 500}
              /\ comments' = comments
              /\ products' = products
              /\ reviews' = reviews]_vars

\* a review for product 1 was answered 404 after the product was deleted,
\* while Comments of product 1 are still stored
UnknownIntegerIdAnswered404 ==
    /\ response.endpoint = "review"
    /\ response.status = 404
    /\ response.req.id = <<"1">>
    /\ products = {}
    /\ CommentsOf(comments, 1) # <<>>

\* user, rating or comment is missing, or the rating is not within 1..5
MissingOrOutOfRange(req) ==
    \/ \E f \in {"user", "comment"} : f \notin DOMAIN req \/ req[f] = <<>>
    \/ "rating" \notin DOMAIN req
    \/ req.rating \notin 10..50

\* C11, as the claim states it: a review submission for an existing product
\* in which user, rating or comment is missing, or the rating is outside
\* 1..5, is answered 400, stores no Comment and leaves the products
\* unchanged; and every stored Comment has a whole rating in 1..5.
C11_InvalidReviewIs400 ==
    /\ [][\A req \in ReviewRequests :
              /\ ReviewFindProduct(req)
              /\ \E p \in products : Names(req.id, p.legacyId)
              /\ MissingOrOutOfRange(req)
              => /\ response'.endpoint = "review"
                 /\ response'.req = req
                 /\ response'.status = 400
                 /\ comments' = comments
                 /\ products' = products
                 /\ reviews' = reviews]_vars
    /\ [](\A i \in 1..Len(comments) : comments[i].rating \in 1..5)

\* The case of a number: when the rating the body carries is a number, the
\* submission is answered 400 as C11 says; whatever the body carries, a
\* submission with a missing field or a rating outside 1..5 stores no
\* Comment and changes no product, and stored ratings are whole and in 1..5.
InvalidNumberReviewIs400 ==
    /\ [][\A req \in ReviewRequests :
              /\ ReviewFindProduct(req)
              /\ \E p \in products : Names(req.id, p.legacyId)
              /\ MissingOrOutOfRange(req)
              /\ "rating" \in DOMAIN req => req.rating # NaN
              => /\ response'.endpoint = "review"
                 /\ response'.req = req
                 /\ response'.status = 400
                 /\ comments' = comments
                 /\ products' = products
                 /\ reviews' = reviews]_vars
    /\ [][Len(comments') > Len(comments) =>
              \E r \in BagToSet(reviews) :
                  /\ r.await = "newComment.save"
                  /\ ~MissingOrOutOfRange(r.req)
                  /\ comments' = Append(comments, r.newComment)]_vars
    /\ [](\A i \in 1..Len(comments) : comments[i].rating \in 1..5)

\* the Comment of the submission r is in the store
Inserted(r) == r.await \in {"Comment.aggregate", "product.save"}

\* the step ends the submission r with the answer status
Ends(r, status) ==
    /\ reviews' = reviews (-) SetToBag({r})
    /\ response'.endpoint = "review"
    /\ response'.req = r.req
    /\ response'.status = status

\* C12, as the claim states it: a review submission that ends in an error
\* (404, 400 or 500, a store failure at the aggregate or the product save
\* included) has persisted no part of itself: its Comment is not in the
\* store and the products are as they were.
C12_FailedReviewPersistsNothing ==
    /\ [][\A req \in ReviewRequests :
              ReviewFindProduct(req) /\ reviews' = reviews
              => comments' = comments /\ products' = products]_vars
    /\ [][\A r \in BagToSet(reviews) :
              Ends(r, 500) => ~Inserted(r) /\ products' = products]_vars

-----------------------------------------------------------------------------
(* Properties of the verified-purchase flag and of stored Comments *)

\* t occurs in s at some position
OccursIn(t, s) ==
    \E k \in 1..(Len(s) + 1) :
        \A m \in 1..Len(t) : k + m - 1 <= Len(s) /\ s[k + m - 1] = t[m]

\* some Order has the product among its items and a customer whose
\* lowercased, trimmed "firstname lastname" contains the lowercased, trimmed
\* reviewer name
BoughtBy(store, legacyId, user) ==
    \E o \in {store[i] : i \in 1..Len(store)} :
        /\ \E item \in {o.items[j] : j \in 1..Len(o.items)} : item.id = legacyId
        /\ OccursIn(Trim(ToLowerCase(user)),
                    Trim(ToLowerCase(o.user.firstname \o <<" ">> \o o.user.lastname)))

\* C13: the Comment a review submission builds after its scan of the Orders
\* has verifiedPurchase true exactly when some Order holds the product and
\* a customer name that contains the reviewer name, whatever the order of
\* the Orders; and that Comment is the one the submission stores.
C13_VerifiedIffBought ==
    /\ [][\A r \in BagToSet(reviews) :
              r.await = "Order.find" /\ reviews' # reviews
              => \E n \in BagToSet(reviews') :
                     /\ n.await = "newComment.save"
                     /\ n.req = r.req
                     /\ Names(r.req.id, n.newComment.productId)
                     /\ n.newComment.verifiedPurchase
                            = BoughtBy(orders, n.newComment.productId, r.req.user)]_vars
    /\ [][Len(comments') > Len(comments)
              => \E r \in BagToSet(reviews) :
                     /\ r.await = "newComment.save"
                     /\ comments' = Append(comments, r.newComment)]_vars

\* " PRiyA Sharma " reviewed product 1 and is verified although the first
\* Order that holds product 1 is Ram's; "priya reddy" reviewed it and is not
C13_Witness ==
    /\ Len(orders) >= 2
    /\ \E i \in 1..Len(orders) : \E j \in 1..Len(orders) :
           /\ i < j
           /\ orders[i].user.firstname = <<"R", "a", "m">>
           /\ orders[i].items[1].id = 1
           /\ orders[j].user.firstname = <<"P", "r", "i", "y", "a">>
           /\ orders[j].items[1].id = 1
    /\ \E c \in {comments[i] : i \in 1..Len(comments)} :
           /\ c.username = <<"P", "R", "i", "y", "A", " ", "S", "h", "a", "r", "m", "a">>
           /\ c.verifiedPurchase
    /\ \E c \in {comments[i] : i \in 1..Len(comments)} :
           /\ c.username = <<"p", "r", "i", "y", "a", " ", "r", "e", "d", "d", "y">>
           /\ ~c.verifiedPurchase

\* C16: no step of any operation modifies or deletes a stored Comment; the
\* Comments of a state are, unchanged and in place, Comments of the next.
C16_CommentsAreImmutable ==
    [][/\ Len(comments') >= Len(comments)
       /\ \A i \in 1..Len(comments) : comments'[i] = comments[i]]_vars

\* "PRiyA Sharma" reviewed product 1 before Priya's order for it was
\* persisted: the Comment still says unverified after the order exists,
\* was shipped, and the product was deleted
C16_Witness ==
    /\ products = {}
    /\ \E o \in {orders[i] : i \in 1..Len(orders)} :
           /\ o.user.firstname = <<"P", "r", "i", "y", "a">>
           /\ o.items[1].id = 1
           /\ o.shippingStatus = "Shipped"
    /\ \E c \in {comments[i] : i \in 1..Len(comments)} :
           /\ c.username = <<"P", "R", "i", "y", "A", " ", "S", "h", "a", "r", "m", "a">>
           /\ c.productId = 1
           /\ ~c.verifiedPurchase

-----------------------------------------------------------------------------
(* Properties of overlapping review submissions *)

\* the product carries the aggregate of the Comments that store holds for it
CarriesAggregateOf(p, store) ==
    LET cs == CommentsOf(store, p.legacyId)
    IN  /\ cs # <<>>
        /\ p.rating = MeanRoundedToTenths(cs)
        /\ p.reviewsCount = Len(cs)

\* C14: a review submission that was sent after the overlapping submissions
\* had completed, and ran with no other in progress, ends with the product's
\* rating and reviewsCount equal to the rounded mean and the count of all
\* the product's Comments.  Such a submission is one that ends when more
\* than MaxOverlappingComments Comments are stored.
C14_LoneReviewRepairsAggregate ==
    [][\A r \in BagToSet(reviews) :
           Ends(r, 201) /\ Len(comments) > MaxOverlappingComments
           => /\ reviews' = EmptyBag
              /\ \E p \in products' : Names(r.req.id, p.legacyId)
              /\ \A p \in products' :
                     Names(r.req.id, p.legacyId) => CarriesAggregateOf(p, comments')]_vars

\* two overlapping submissions have left product 1 with the reviewsCount 1
\* of the first while two Comments are stored; a third submission, running
\* alone, has stored its Comment and is about to save the aggregate of three
C14_Witness ==
    /\ Len(comments) = 3
    /\ \E p \in products : p.legacyId = 1 /\ p.reviewsCount = 1
    /\ \E r \in BagToSet(reviews) :
           /\ reviews = SetToBag({r})
           /\ r.await = "product.save"
           /\ r.product.reviewsCount = 3

\* rating and reviewsCount are the rounded mean and the count of the first
\* k Comments of the product, for some k: of a Comment set that was once
\* the stored one
OfOneCommentSet(rating, reviewsCount, cs) ==
    \E k \in 1..Len(cs) :
        /\ rating = MeanRoundedToTenths(SubSeq(cs, 1, k))
        /\ reviewsCount = k

\* C15, as the claim states it: under any interleaving of overlapping review
\* submissions the pair (rating, reviewsCount) a submission computes, and
\* the pair a product holds after any write, are the rounded mean and the
\* count of one and the same Comment set that was once stored.
C15_StoredPairIsSelfConsistent ==
    /\ [][\A r \in BagToSet(reviews) :
              Ends(r, 201)
              => OfOneCommentSet(r.product.rating, r.product.reviewsCount,
                                 CommentsOf(comments, r.product.legacyId))]_vars
    /\ [](\A p \in products :
              \/ p.rating = 0 /\ p.reviewsCount = 0
              \/ OfOneCommentSet(p.rating, p.reviewsCount,
                                 CommentsOf(comments, p.legacyId)))

-----------------------------------------------------------------------------
(* Properties of the Order collection *)

\* the fields of an Order that no update may touch
FrozenOrderFields == {"orderId", "user", "total", "items", "paymentStatus", "razorpay"}

\* next keeps every field of the Order doc except shippingStatus and tracking
KeepsFrozenFields(doc, next) ==
    /\ DOMAIN doc \ {"shippingStatus", "tracking"}
           = DOMAIN next \ {"shippingStatus", "tracking"}
    /\ \A f \in FrozenOrderFields \cap DOMAIN doc : next[f] = doc[f]

\* C17: no step deletes an Order or moves it; a step changes a stored Order
\* only when it is the admin status update answered 200 for that Order's
\* orderId, and then only its shippingStatus and tracking: its orderId,
\* user, total, items, paymentStatus and razorpay fields stay, and so does
\* every other Order.
C17_OrdersAreAppendOnly ==
    [][/\ Len(orders') >= Len(orders)
       /\ \A i \in 1..Len(orders) :
              /\ KeepsFrozenFields(orders[i], orders'[i])
              /\ orders'[i] # orders[i]
                 => /\ response'.endpoint = "order-status"
                    /\ response'.status = 200
                    /\ response'.req.orderId = orders[i].orderId
                    /\ response'.body = orders'[i]]_vars

\* two Orders are stored; the first was shipped and the second is as it was
\* persisted
C17_Witness ==
    /\ Len(orders) = 2
    /\ orders[1].shippingStatus = "Shipped"
    /\ "tracking" \in DOMAIN orders[1]
    /\ orders[2].shippingStatus = "Pending"
    /\ "tracking" \notin DOMAIN orders[2]
    /\ response.endpoint = "order-status"
    /\ response.status = 200


\* a non-empty items list with every quantity >= 1 and every price >= 0,
\* and a total >= 0
WellFormedCart(o) ==
    /\ "items" \in DOMAIN o
    /\ Len(o.items) >= 1
    /\ \A k \in 1..Len(o.items) : o.items[k].quantity >= 1 /\ o.items[k].price >= 0
    /\ "total" \in DOMAIN o
    /\ o.total >= 0

\* C18: every persisted Order has a non-empty items list whose items have
\* quantity >= 1 and price >= 0, and a total >= 0; when the save of a capture
\* whose signature matched and whose orderDetails break this settles, the
\* Order collection stays as it was and the answer is not a success.
C18_PersistedOrdersAreWellFormed ==
    /\ [](\A i \in 1..Len(orders) : WellFormedCart(orders[i]))
    /\ [][\A p \in BagToSet(pendingOrderSaves) :
              (/\ pendingOrderSaves' = pendingOrderSaves (-) SetToBag({p})
               /\ SignatureMatches(CaptureDigest(p.req), p.req.razorpay_signature)
               /\ ~WellFormedCart(p.req.orderDetails))
              => /\ orders' = orders
                 /\ response'.status # 200]_vars

\* an Order of two items is stored, and a signed capture of an empty cart
\* was answered 500
C18_Witness ==
    /\ Len(orders) = 1
    /\ Len(orders[1].items) = 2
    /\ response.endpoint = "capture"
    /\ response.status = 500
    /\ SignatureMatches(CaptureDigest(response.req), response.req.razorpay_signature)
    /\ response.req.orderDetails.items = <<>>
    /\ response.req.razorpay_order_id # orders[1].orderId

-----------------------------------------------------------------------------
(* Properties of the product listing *)

\* the page or limit value v is absent or a decimal numeral within lo..hi
Within(req, f, lo, hi) ==
    f \in DOMAIN req
    => /\ req[f] # <<>>
       /\ \A k \in 1..Len(req[f]) : IsDigit(req[f][k])
       /\ LeadingDigits(req[f], 0) >= lo
       /\ LeadingDigits(req[f], 0) <= hi

\* the page p and limit l a request asks for
Asked(req, f, default) == IF f \in DOMAIN req THEN LeadingDigits(req[f], 0) ELSE default

\* C19: when a listing requested with page p >= 1 and limit l in 1..50 is
\* answered, the answer is 200 with currentPage = p and exactly the products
\* at positions (p-1)*l+1 .. min(p*l, T) of the filtered, sorted listing of
\* the T products the query finds; where the count was taken of that same
\* listing, totalProducts = T and totalPages = ceil(T / l).
C19_PageIsSliceOfListing ==
    [][\A q \in BagToSet(listings) :
          (/\ listings' = listings (-) SetToBag({q})
           /\ Within(q.req, "page", 1, 1000)
           /\ Within(q.req, "limit", 1, 50))
          => LET p == Asked(q.req, "page", 1)
                 l == Asked(q.req, "limit", 10)
                 listing == SortedMatches(products, q.req)
                 T == Len(listing)
                 lo == (p - 1) * l + 1
                 hi == IF p * l <= T THEN p * l ELSE T
             IN  /\ response'.endpoint = "products"
                 /\ response'.status = 200
                 /\ response'.body.currentPage = p
                 /\ Len(response'.body.products) = IF hi >= lo THEN hi - lo + 1 ELSE 0
                 /\ \A k \in 1..Len(response'.body.products) :
                        /\ response'.body.products[k].id = listing[lo + k - 1].legacyId
                        /\ response'.body.products[k].price = listing[lo + k - 1].price
                 /\ q.totalProducts = T
                    => /\ response'.body.totalProducts = T
                       /\ response'.body.totalPages * l >= T
                       /\ (response'.body.totalPages - 1) * l < T]_vars

\* page 2 of 10 over 25 products: products 11 to 20, 3 pages
C19_Witness ==
    /\ response.endpoint = "products"
    /\ response.status = 200
    /\ response.req = [page |-> <<"2">>, limit |-> <<"1", "0">>]
    /\ Len(response.body.products) = 10
    /\ response.body.products[1].id = 11
    /\ response.body.products[10].id = 20
    /\ response.body.totalPages = 3
    /\ response.body.currentPage = 2
    /\ response.body.totalProducts = 25


\* C20: for every page and limit value, the page size a listing request
\* works with is an integer in 1..50, its page number is an integer >= 1
\* and its skip offset is >= 0, and a listing answer never carries more than
\* 50 products.
C20_PaginationIsClamped ==
    /\ \A q \in BagToSet(listings) :
           /\ q.limitNum # NaN /\ q.limitNum >= 1 /\ q.limitNum <= 50
           /\ q.pageNum # NaN /\ q.pageNum >= 1
           /\ q.skip # NaN /\ q.skip >= 0
    /\ (response.endpoint = "products" /\ response.status = 200)
       => Len(response.body.products) <= 50

\* the clamp holds for every page and limit that parseInt reads a number
\* from, 0, negative and above 50 included
NumeralPaginationIsClamped ==
    /\ \A q \in BagToSet(listings) :
           (Numeral(QueryPage(q.req)) /\ Numeral(QueryLimit(q.req)))
           => /\ q.limitNum \in 1..50
              /\ q.pageNum >= 1
              /\ q.skip >= 0
    /\ (/\ response.endpoint = "products"
        /\ Numeral(QueryPage(response.req))
        /\ Numeral(QueryLimit(response.req)))
       => /\ response.status = 200
          /\ Len(response.body.products) <= 50

\* a limit of "abc" was answered with every product of the catalog
UnlimitedPageReached ==
    /\ response.endpoint = "products"
    /\ response.status = 200
    /\ "limit" \in DOMAIN response.req
    /\ response.req.limit = <<"a", "b", "c">>
    /\ Len(response.body.products) = MaxCatalog

\* a limit of 1000 was answered with 50 of the MaxCatalog products
ClampedPageReached ==
    /\ response.endpoint = "products"
    /\ response.status = 200
    /\ "limit" \in DOMAIN response.req
    /\ response.req.limit = <<"1", "0", "0", "0">>
    /\ Len(response.body.products) = 50
    /\ response.body.totalProducts = MaxCatalog


\* the step is an admin status update the server has let through
StatusUpdateAnswered ==
    /\ response'.endpoint = "order-status"
    /\ <<orders, response>>' # <<orders, response>>
    /\ response'.status # 401

-----------------------------------------------------------------------------
(* Properties of the order of the review pipeline's steps *)

\* the Comment of the submission r is stored
OwnCommentStored(r) == \E i \in 1..Len(comments) : comments[i] = r.newComment

\* the scan precedes the insert, and the aggregate follows the insert and
\* counts the submission's own Comment
ScanThenInsertThenAggregate ==
    /\ [][Len(comments') > Len(comments)
          => \E r \in BagToSet(reviews) :
                 /\ r.await = "newComment.save"
                 /\ "verifiedPurchase" \in DOMAIN r.newComment
                 /\ comments' = Append(comments, r.newComment)]_vars
    /\ [](\A r \in BagToSet(reviews) :
              /\ r.await = "Order.find" => "newComment" \notin DOMAIN r
              /\ r.await = "Comment.aggregate" => OwnCommentStored(r)
              /\ r.await = "product.save"
                 => /\ OwnCommentStored(r)
                    /\ r.product.reviewsCount >= 1
                    /\ r.product.reviewsCount
                           <= Len(CommentsOf(comments, r.product.legacyId)))
    /\ []((response.endpoint = "review" /\ response.status = 201)
              => response.body.newReviewsCount >= 1)

\* C25: a review submission for an id that resolves to no Product is
\* answered 404 when its body is invalid too; the verified-purchase scan
\* precedes the Comment insert; the aggregate is computed after the
\* submission's own Comment is inserted, so the count is >= 1 and includes it.
C25_ReviewStepsInOrder ==
    /\ ScanThenInsertThenAggregate
    /\ []((/\ response.endpoint = "review"
           /\ ~ \E p \in products : Names(response.req.id, p.legacyId)
           /\ MissingOrOutOfRange(response.req))
          => response.status = 404)

\* the order of the steps for ids that are numerals: an invalid body for
\* the numeral of no product is answered 404, and for whatever id of no
\* product it is never answered 400
ReviewStepsInOrderForNumerals ==
    /\ ScanThenInsertThenAggregate
    /\ []((/\ response.endpoint = "review"
           /\ ~ \E p \in products : Names(response.req.id, p.legacyId)
           /\ MissingOrOutOfRange(response.req))
          => /\ response.status # 400
             /\ (\E n \in 0..9 : Names(response.req.id, n)) => response.status = 404)

\* an invalid body for the numeral of no product was answered 404
UnknownIdInvalidBodyAnswered404 ==
    /\ response.endpoint = "review"
    /\ response.req.id = <<"2">>
    /\ MissingOrOutOfRange(response.req)
    /\ response.status = 404

-----------------------------------------------------------------------------
(* Properties of the admin gate *)

\* the request carries the secret the server is configured with, in its
\* x-admin-secret header or its secret query parameter
CarriesAdminSecret(req) ==
    /\ ADMIN_SECRET # undefined
    /\ \E f \in {"x_admin_secret", "secret"} \cap DOMAIN req : req[f] = ADMIN_SECRET

\* the step is the answer of an admin-gated route
AdminRouteAnswered ==
    /\ response'.endpoint
           \in {"product-create", "product-update", "product-delete", "order-status"}
    /\ <<response, products, orders>>' # <<response, products, orders>>

\* C22: an admin-gated route answers a request that does not carry the
\* configured admin secret with 401 and changes no Product and no Order,
\* whether ADMIN_SECRET is set in the server's environment or not.
C22_NoSecretIs401 ==
    [][(AdminRouteAnswered /\ ~CarriesAdminSecret(response'.req))
       => /\ response'.status = 401
          /\ products' = products
          /\ orders' = orders]_vars

\* the gate of a server whose ADMIN_SECRET is set
SetSecretGates ==
    [][(/\ ADMIN_SECRET # undefined
        /\ AdminRouteAnswered
        /\ ~CarriesAdminSecret(response'.req))
       => /\ response'.status = 401
          /\ products' = products
          /\ orders' = orders]_vars

\* a server without ADMIN_SECRET deleted the product for a request that
\* carries no secret
UngatedDeleteReached ==
    /\ ADMIN_SECRET = undefined
    /\ response.endpoint = "product-delete"
    /\ DOMAIN response.req = {"id"}
    /\ response.status = 200
    /\ products = {}

-----------------------------------------------------------------------------
(* Properties of the curated listings *)

\* the ids of a listing answer
IdsOf(body) == [i \in 1..Len(body) |-> body[i].legacyId]

\* the ids of value that some product of store carries, in their order
RECURSIVE Resolving(_, _)
Resolving(value, store) ==
    IF value = <<>> THEN <<>>
    ELSE (IF \E p \in store : p.legacyId = Head(value) THEN <<Head(value)>> ELSE <<>>)
         \o Resolving(Tail(value), store)

\* C21: a curated listing is answered 200 with the Products whose id is in
\* the Config value it read, in the order of the value, without the ids no
\* existing Product carries; it reads the value stored under its own key;
\* a Product deleted before the products are read is left out.
C21_CuratedListingKeepsConfigOrder ==
    [][/\ \A l \in BagToSet(listings) :
              listings' = listings (-) SetToBag({l})
              => /\ response'.endpoint = l.route.name
                 /\ response'.status = 200
                 /\ IdsOf(response'.body) = Resolving(l.config.value, products)
                 /\ \A i \in 1..Len(response'.body) : response'.body[i] \in products
       /\ \A l \in BagToSet(listings') :
              listings = listings' (-) SetToBag({l})
              => /\ l.config \in configs
                 /\ l.config.key \in {"carouselProductIds", "topPicksProductIds"}
                 /\ l.route.name = "carousel" <=> l.config.key = "carouselProductIds"]_vars

\* the carousel curated as 3, 1, 2 was answered with products 3 and 2 after
\* product 1 was deleted
C21_Witness ==
    /\ [key |-> "carouselProductIds", value |-> <<3, 1, 2>>] \in configs
    /\ \A p \in products : p.legacyId # 1
    /\ response.endpoint = "carousel"
    /\ response.status = 200
    /\ response.req = << >>
    /\ response.body # <<>>
    /\ IdsOf(response.body) = <<3, 2>>

-----------------------------------------------------------------------------
(* Properties of the rate limiters *)

\* the admissions of the limiter for the key in the window that starts at t
AdmittedIn(limiter, key, t) ==
    {a \in BagToSet(admitted) :
        /\ a.limiter = limiter.name
        /\ a.key = key
        /\ t <= a.time
        /\ a.time < t + limiter.windowMs}

RECURSIVE Sum(_, _)
Sum(S, bag) ==
    IF S = {} THEN 0
    ELSE LET a == CHOOSE x \in S : TRUE IN CopiesIn(a, bag) + Sum(S \ {a}, bag)

AtMostMaxPerWindow(limiter) ==
    \A a \in BagToSet(admitted), t \in 0..MaxNow :
        Sum(AdmittedIn(limiter, a.key, t), admitted) <= limiter.maxRequests

\* C26: each limiter admits at most maxRequests requests of a key in every
\* interval of length windowMs, whatever requests the limiters received and
\* whenever the cleanup of the shared map ran.
C26_AtMostMaxRequestsPerWindow == \A limiter \in Limiters : AtMostMaxPerWindow(limiter)

\* the limiters with the short window keep their limit
ShortWindowLimitersKeepLimit ==
    AtMostMaxPerWindow(generalLimiter) /\ AtMostMaxPerWindow(strictLimiter)

\* the requests of the key recorded at time t
TimesAt(counts, k, t) ==
    IF k \in DOMAIN counts THEN Len(SelectSeq(counts[k], LAMBDA time : time = t)) ELSE 0

\* a time is added to the list of a key only for a request a limiter
\* admitted under that key: the limiter that answers 429 records nothing
OnlyAdmittedIsRecorded ==
    [][now' = now
       => \A k \in DOMAIN requestCounts' :
              TimesAt(requestCounts', k, now) > TimesAt(requestCounts, k, now)
              => \E a \in BagToSet(admitted') :
                     /\ a.key = k
                     /\ a.time = now
                     /\ CopiesIn(a, admitted') > CopiesIn(a, admitted)]_vars

UploadRejected == response.endpoint = "/api/upload" /\ response.status = 429

-----------------------------------------------------------------------------
(* Properties of payment-intent creation *)

CreateOrderAnswered(req) ==
    /\ admitted' # admitted
    /\ response'.endpoint = "/api/razorpay/create-order"
    /\ response'.req = req
    /\ response'.status # 429

\* C23: a create-order request the limiters let through whose total is
\* missing, zero or negative is answered with an error and no gateway order
\* is created for it; for a positive total the gateway is asked for
\* round(total * 100) minor units: the order it creates has that amount.
C23_NonPositiveTotalCreatesNoGatewayOrder ==
    [][\A req \in CreateOrderRequests :
           CreateOrderAnswered(req)
           => IF "total" \notin DOMAIN req \/ req.total <= 0
              THEN response'.status >= 400 /\ gatewayOrders' = gatewayOrders
              ELSE \/ response'.status = 500 /\ gatewayOrders' = gatewayOrders
                   \/ /\ response'.status = 200
                      /\ Len(gatewayOrders') = Len(gatewayOrders) + 1
                      /\ gatewayOrders'[Len(gatewayOrders')].amount * 10 <= req.total + 5
                      /\ gatewayOrders'[Len(gatewayOrders')].amount * 10 > req.total - 5]_vars

\* a missing or zero total is answered 400 and the gateway is not asked; a
\* positive total is rounded half up to minor units
MissingOrZeroTotalIs400 ==
    [][\A req \in CreateOrderRequests :
           CreateOrderAnswered(req)
           => IF "total" \notin DOMAIN req \/ req.total = 0
              THEN response'.status = 400 /\ gatewayOrders' = gatewayOrders
              ELSE response'.status = 200
                   => /\ Len(gatewayOrders') = Len(gatewayOrders) + 1
                      /\ gatewayOrders'[Len(gatewayOrders')].amount * 10 <= req.total + 5
                      /\ gatewayOrders'[Len(gatewayOrders')].amount * 10 > req.total - 5]_vars

NegativeAmountRequested ==
    \E i \in 1..Len(gatewayOrders) : gatewayOrders[i].amount < 0

-----------------------------------------------------------------------------
(* Properties of the CSV export *)

\* a reader of CSV text.  A position is outside the quoted fields when an
\* even number of double quotes precedes it.
Outside(text, i) == Cardinality({j \in 1..(i - 1) : text[j] = "\""}) % 2 = 0

\* the k-th smallest member of a set of numbers
Kth(S, k) == CHOOSE i \in S : Cardinality({j \in S : j < i}) = k - 1

\* the pieces of text between the separators that are outside quoted fields
Split(text, sep) ==
    LET breaks == {i \in 1..Len(text) : text[i] = sep /\ Outside(text, i)}
        from(k) == IF k = 1 THEN 1 ELSE Kth(breaks, k - 1) + 1
        to(k) == IF k = Cardinality(breaks) + 1 THEN Len(text) ELSE Kth(breaks, k) - 1
    IN  [k \in 1..(Cardinality(breaks) + 1) |-> SubSeq(text, from(k), to(k))]

\* the value of a field: one that starts with a double quote loses the
\* quotes around it and every second quote of each run of quotes inside
Unquote(field) ==
    IF field = <<>> \/ field[1] # "\"" THEN field
    ELSE LET inner == SubSeq(field, 2, Len(field) - 1)
             run(j) == j - (IF \E q \in 1..j : inner[q] # "\""
                            THEN CHOOSE q \in 1..j :
                                     /\ inner[q] # "\""
                                     /\ \A r \in (q + 1)..j : inner[r] = "\""
                            ELSE 0)
             kept == {j \in 1..Len(inner) : inner[j] # "\"" \/ run(j) % 2 = 1}
         IN  [k \in 1..Cardinality(kept) |-> inner[Kth(kept, k)]]

Lines(text) == Split(text, "\n")

ParseCsv(text) ==
    LET lines == Lines(text)
    IN  [r \in 1..Len(lines) |->
            LET fields == Split(lines[r], ",")
            IN  [c \in 1..Len(fields) |-> Unquote(fields[c])]]

Special(str) == \E i \in 1..Len(str) : str[i] \in {",", "\"", "\n"}

\* str as one quoted field with its quotes doubled
Quoted(str) ==
    <<"\"">>
    \o Join([i \in 1..Len(str) |-> IF str[i] = "\"" THEN <<"\"", "\"">> ELSE <<str[i]>>], <<>>)
    \o <<"\"">>

ExportAnswered == response.endpoint = "orders-export" /\ response.status = 200

\* C24: the export's first row is the header row, and the row of every
\* exported order is its eight cells joined by commas, a cell with a comma,
\* a double quote or a newline as one quoted field with its quotes doubled
\* and every other cell verbatim; read back, the text has the header row
\* and one row of exactly 8 fields per order, each field equal to the cell.
C24_ExportRowsParseIntoEightFields ==
    ExportAnswered
    => LET found == Exported(response.req)
           lines == Lines(response.body)
           parsed == ParseCsv(response.body)
       IN  /\ Len(lines) = Len(found) + 1
           /\ Len(parsed) = Len(found) + 1
           /\ lines[1] = Join(headers, <<",">>)
           /\ parsed[1] = headers
           /\ \A r \in 1..Len(found) :
                  LET cells == Cells(orders[found[r]], found[r])
                  IN  /\ lines[r + 1] = Join([c \in 1..8 |->
                                                IF Special(cells[c]) THEN Quoted(cells[c])
                                                ELSE cells[c]], <<",">>)
                      /\ Len(parsed[r + 1]) = 8
                      /\ parsed[r + 1] = cells

\* an export of two orders, one of a customer named Doe, Jr and one whose
\* address holds a double quote
C24_Witness ==
    /\ ExportAnswered
    /\ Len(orders) = 2
    /\ Len(Exported(response.req)) = 2
    /\ \E i \in 1..2 : orders[i].user.lastname = <<"D", "o", "e", ",", " ", "J", "r">>
    /\ \E i \in 1..2 : Includes(orders[i].user.address1, <<"\"">>)
    /\ Includes(response.body, <<"\"", "J", "o", " ", "D", "o", "e", ",", " ", "J", "r", "\"">>)

-----------------------------------------------------------------------------
(* Properties of the standalone server's startup *)

\* C27: startServer is at the product count, at the seeding or listening
\* only after a call of mongoose.connect has succeeded: when the first
\* attempt fails none of these steps is begun before a retry has connected.
C27_DatabasePartWaitsForConnection ==
    startup.pc \in {"countDocuments", "readFile", "insertProducts", "insertComments",
                    "listening"}
    => startup.connected

\* the product count is answered, the seed file read and the documents
\* inserted, and the server listens, only after a connection was made
SeedingAndListenWaitForConnection ==
    /\ startup.pc \in {"readFile", "insertProducts", "insertComments", "listening"}
       => startup.connected
    /\ [][startup.pc = "countDocuments" /\ startup'.pc \notin {"countDocuments", "exit"}
          => startup'.connected]_vars

\* the first attempt failed and Product.countDocuments() was called
CountCalledWithoutConnection ==
    startup.pc = "countDocuments" /\ ~startup.connected /\ startup.timers = 1

\* the server gave up although a retry was pending
ExitedWhileRetrying == startup.pc = "exit" /\ startup.timers + startup.connecting > 0

-----------------------------------------------------------------------------
(* Properties of the client's product loading *)

Pending == {p \in 1..Len(promises) : promises[p].state = "pending"}

\* the step is a call of loadProducts
Called == Len(callers') = Len(callers) + 1

TheCall == callers'[Len(callers')]

\* at most one fetch is in flight, and it is the one inFlightFetch names
AtMostOneFetch ==
    /\ Cardinality(Pending) <= 1
    /\ \A p \in Pending : inFlightFetch = p
    /\ inFlightFetch # null => inFlightFetch \in Pending

\* the calls that awaited a promise get what it settled with
SameProducts ==
    \A c \in 1..Len(callers) :
        /\ callers[c].state = "returned" /\ callers[c].promise # null
           => /\ promises[callers[c].promise].state = "fulfilled"
              /\ callers[c].value = applyCartState(promises[callers[c].promise].value)
        /\ callers[c].state = "threw"
           => /\ promises[callers[c].promise].state = "rejected"
              /\ callers[c].error = promises[callers[c].promise].error

\* C28 as stated: at most one fetch is in flight, and every call of
\* loadProducts made while a fetch is in flight, forced or not, awaits that
\* fetch and starts no other; the calls that await a fetch receive its
\* products.
C28_EveryCallAwaitsTheFetchInFlight ==
    /\ [](AtMostOneFetch /\ SameProducts)
    /\ [][Called /\ inFlightFetch # null
          => /\ TheCall.state = "awaiting"
             /\ TheCall.promise = inFlightFetch
             /\ promises' = promises]_vars

\* C28: at most one fetch is in flight; a call of loadProducts made while a
\* fetch is in flight that is forced or finds no valid cache awaits that
\* fetch and starts no other, while a call that is not forced and finds the
\* cache valid returns the cached products without awaiting; the calls that
\* await a fetch receive its products.
C28_CallsWithoutValidCacheAwaitTheFetch ==
    /\ [](AtMostOneFetch /\ SameProducts)
    /\ [][Called /\ inFlightFetch # null
          => /\ promises' = promises
             /\ inFlightFetch' = inFlightFetch
             /\ IF TheCall.forceReload
                   \/ cachedProducts = <<>>
                   \/ now - lastFetchTime >= CacheDuration
                THEN TheCall.state = "awaiting" /\ TheCall.promise = inFlightFetch
                ELSE /\ TheCall.state = "returned"
                     /\ TheCall.promise = null
                     /\ TheCall.value = applyCartState(cachedProducts)]_vars

\* a forced call and a later call awaited the same fetch and both returned
\* its products
C28_Witness ==
    \E c, d \in 1..Len(callers) :
        /\ c < d
        /\ callers[c].promise # null
        /\ callers[c].promise = callers[d].promise
        /\ callers[c].forceReload
        /\ callers[c].state = "returned"
        /\ callers[d].state = "returned"
        /\ callers[c].value # <<>>
        /\ cachedProducts # <<>>

\* a call returned from the cache while a forced fetch was in flight
CacheServedDuringFetch ==
    \E c \in 1..Len(callers) :
        /\ callers[c].promise = null
        /\ c > 1
        /\ callers[c - 1].state = "awaiting"
        /\ callers[c - 1].forceReload
        /\ inFlightFetch # null

\* the step rejects the fetch in flight
FetchFails ==
    /\ inFlightFetch # null
    /\ promises'[inFlightFetch].state = "rejected"

\* the last fetch failed and none is in flight
LastFetchFailed ==
    /\ promises # <<>>
    /\ promises[Len(promises)].state = "rejected"
    /\ inFlightFetch = null

FailureLeavesCache ==
    [][FetchFails
       => /\ cachedProducts' = cachedProducts
          /\ lastFetchTime' = lastFetchTime
          /\ inFlightFetch' = null]_vars

AwaitersGetTheError ==
    [][\A c \in 1..Len(callers) :
           (/\ callers[c].state = "awaiting"
            /\ promises[callers[c].promise].state = "rejected"
            /\ callers'[c] # callers[c])
           => /\ callers'[c].state = "threw"
              /\ callers'[c].error = promises[callers[c].promise].error]_vars

\* C29 as stated: when the fetch in flight fails or times out the cache and
\* lastFetchTime stay as they were and inFlightFetch becomes null, every
\* call that awaited it throws its error, and the next call of loadProducts
\* starts a new fetch.
C29_NextCallStartsNewFetch ==
    /\ FailureLeavesCache
    /\ AwaitersGetTheError
    /\ [][Called /\ LastFetchFailed
          => /\ Len(promises') = Len(promises) + 1
             /\ promises'[Len(promises')].state = "pending"
             /\ inFlightFetch' = Len(promises')
             /\ TheCall.promise = Len(promises')]_vars

\* C29: when the fetch in flight fails or times out the cache and
\* lastFetchTime stay as they were and inFlightFetch becomes null, every
\* call that awaited it throws its error, and no later call awaits the
\* failed fetch: the next call that is forced or finds no valid cache starts
\* a new fetch, and one that finds the cache valid returns the cache.
C29_NextCallNeverAwaitsFailedFetch ==
    /\ FailureLeavesCache
    /\ AwaitersGetTheError
    /\ [][Called /\ LastFetchFailed
          => IF isCacheValid(TheCall.forceReload)
             THEN /\ TheCall.promise = null
                  /\ TheCall.state = "returned"
                  /\ promises' = promises
                  /\ inFlightFetch' = null
             ELSE /\ Len(promises') = Len(promises) + 1
                  /\ promises'[Len(promises')].state = "pending"
                  /\ inFlightFetch' = Len(promises')
                  /\ TheCall.promise = Len(promises')]_vars

\* two calls threw the error of a fetch that timed out and a later call
\* started a new fetch
C29_Witness ==
    /\ Len(promises) = 2
    /\ promises[1].state = "rejected"
    /\ promises[1].error = "Request timed out. Please check your connection."
    /\ Len(callers) = 3
    /\ callers[1].state = "threw" /\ callers[1].promise = 1
    /\ callers[2].state = "threw" /\ callers[2].promise = 1
    /\ callers[3].promise = 2
    /\ inFlightFetch = 2

\* after a forced fetch failed a call returned from the cache
CacheServedAfterFailure ==
    /\ LastFetchFailed
    /\ callers # <<>>
    /\ callers[Len(callers)].promise = null
    /\ Len(callers) > 1
    /\ callers[Len(callers) - 1].state = "threw"

=============================================================================
